---- MODULE Spec2Model ----
(***************************************************************************)
(* The mind-map renderer of Reviso                                         *)
(* (src/frontend/src/components/MindMap/MindMapRenderer.tsx): the two      *)
(* layout functions, the content bounds, the fit-to-screen computation and *)
(* the pointer / wheel / button handlers of the MindMapRenderer component, *)
(* as a state machine over the component's React state, and the page that  *)
(* renders it (src/frontend/src/pages/MindMapPage.tsx).                    *)
(*                                                                         *)
(* Numbers.  A JavaScript number is modelled as an exact rational in       *)
(* lowest terms, of any size.  Rounding of IEEE doubles is not modelled in *)
(* the state of the component: sums, products and quotients are exact.     *)
(* Angles are kept as rational multiples of pi; cos and sin are the values *)
(* of the cosine and the sine rounded to 16 decimals.  RoundToDouble gives *)
(* the double nearest to a number, for the places where the rounding of    *)
(* the code's arithmetic is followed step by step.                         *)
(***************************************************************************)
EXTENDS Integers, Sequences, FiniteSets, TLC

Abs(x) == IF x < 0 THEN -x ELSE x

\* Euclid's algorithm on machine integers
RECURSIVE GCD(_, _)
GCD(a, b) == IF b = 0 THEN a ELSE GCD(b, a % b)

(***************************************************************************)
(* Call(<<fn, a, b, ...>>) is the function named fn applied to the         *)
(* arguments a, b, ...: the arguments are evaluated first.  The functions  *)
(* on numbers are called by name, and the component's functions that      *)
(* compute with numbers are entered the same way, through Component.       *)
(***************************************************************************)
RECURSIVE Call(_)
RECURSIVE Component(_)

(***************************************************************************)
(* Loops.  A loop is a step on a state with a field "done", which leaves a *)
(* state that is done as it is.  With F(s) the step named step applied to  *)
(* the arguments ctx and the state s, Iterate(step, ctx, s) is the first   *)
(* state that is done among s, F(s), F(F(s)), ...                          *)
(***************************************************************************)
Iterate(step, ctx, s) == Call(<<"Iterate", step, ctx, s>>)

(***************************************************************************)
(* Natural numbers of any size: limbs to the base 10000, least significant *)
(* first, no zero limb at the end; 0 is <<>>.                              *)
(***************************************************************************)
Base == 10000

NatTrim(a) == Call(<<"NatTrim", a>>)

\* 0 <= i < 2^31
NatFromInt(i) == NatTrim(<<i % Base, (i \div Base) % Base, i \div (Base * Base)>>)
Limb(a, i) == IF i <= Len(a) THEN a[i] ELSE 0
NatToInt(a) == Limb(a, 1) + Base * Limb(a, 2) + Base * Base * Limb(a, 3)
NatIsSmall(a) == Len(a) <= 2 \/ (Len(a) = 3 /\ a[3] < 10)

NatCmp(a, b) == Call(<<"NatCmp", a, b>>)

\* the number with the columns cols, each below 2^31 - 2^18
NatCarry(cols) == Call(<<"NatCarry", cols>>)

NatAdd(a, b) == Call(<<"NatAdd", a, b>>)

\* a - b for a >= b
NatSub(a, b) == Call(<<"NatSub", a, b>>)

\* a * m for 0 <= m < 100000
NatMulSmall(a, m) == Call(<<"NatMulSmall", a, m>>)

\* the sum of a[i] * b[k - i + 1] for i in lo..hi
NatColumn(a, b, k, lo, hi) == Call(<<"NatColumn", a, b, k, lo, hi>>)

\* a * b, the shorter of the two of at most 20 limbs
NatMul(a, b) == Call(<<"NatMul", a, b>>)

\* quotient and remainder of a by m, 0 < m < 100000
NatDivSmall(a, m) == Call(<<"NatDivSmall", a, m>>)

\* the largest q <= qhat with b * q <= r; qhat is at most 2 above it
NatFixQ(b, r, qhat) == Call(<<"NatFixQ", b, r, qhat>>)

\* quotient and remainder of a by b # 0
NatDivMod(a, b) == Call(<<"NatDivMod", a, b>>)

NatGCD(a, b) == Call(<<"NatGCD", a, b>>)

\* a / g for a divisor g of a
NatExact(a, g) == Call(<<"NatExact", a, g>>)

(***************************************************************************)
(* JavaScript numbers: <<n, d>> for the fraction n / d of machine          *)
(* integers, d > 0; <<sign, k>> followed by the k limbs of the numerator   *)
(* and the limbs of the denominator for a larger one                       *)
(***************************************************************************)
\* the largest numerator or denominator kept as a machine integer
SmallMax == 999999999

Rat(n, d) == Call(<<"Rat", n, d>>)

N(i) == <<i, 1>>

IsSmall(a) == Len(a) = 2
Sign(a) ==
    IF IsSmall(a) THEN (IF a[1] < 0 THEN -1 ELSE IF a[1] > 0 THEN 1 ELSE 0)
    ELSE a[1]
Numer(a) == IF IsSmall(a) THEN NatFromInt(Abs(a[1])) ELSE SubSeq(a, 3, 2 + a[2])
Denom(a) == IF IsSmall(a) THEN NatFromInt(a[2]) ELSE SubSeq(a, 3 + a[2], Len(a))

\* s * n / d in lowest terms, for a sign s and naturals n and d # 0
Fraction(s, n, d) == Call(<<"Fraction", s, n, d>>)

\* x * y is at most lim in absolute value
Fits(x, y, lim) == x = 0 \/ y = 0 \/ Abs(x) <= lim \div Abs(y)

Neg(a) == IF IsSmall(a) THEN <<-a[1], a[2]>> ELSE <<-a[1]>> \o Tail(a)

\* n / d for naturals n and d # 0, with sign s
Quotient(s, n, d) ==
    IF s = 0 \/ Len(n) = 0 THEN <<0, 1>>
    ELSE IF NatIsSmall(n) /\ NatIsSmall(d) THEN <<s * NatToInt(n), NatToInt(d)>>
    ELSE <<s, Len(n)>> \o n \o d

\* The sum of two fractions in lowest terms: with g the divisor common to
\* the denominators, the sum over the least common denominator can only be
\* reduced by a divisor of g
AddBig(a, b) == Call(<<"AddBig", a, b>>)

\* sums and comparisons go over the least common denominator
Add(a, b) == Call(<<"Add", a, b>>)
Sub(a, b) == Add(a, Neg(b))

\* The product of two fractions in lowest terms: each numerator is reduced
\* against the other denominator
MulBig(a, b) == Call(<<"MulBig", a, b>>)
Mul(a, b) == Call(<<"Mul", a, b>>)

Inverse(b) == Call(<<"Inverse", b>>)
Div(a, b) == Mul(a, Inverse(b))

\* -1, 0 or 1 as a is below, equal to or above b
CmpBig(a, b) == Call(<<"CmpBig", a, b>>)
Cmp(a, b) == Call(<<"Cmp", a, b>>)
Le(a, b) == Cmp(a, b) <= 0
Lt(a, b) == Cmp(a, b) < 0
Min2(a, b) == IF Le(a, b) THEN a ELSE b
Max2(a, b) == IF Le(a, b) THEN b ELSE a

\* Math.min(...xs) and Math.max(...xs) over a non-empty list
MinOf(xs) ==
    CHOOSE m \in {xs[i] : i \in 1..Len(xs)} :
        \A i \in 1..Len(xs) : Le(m, xs[i])
MaxOf(xs) ==
    CHOOSE m \in {xs[i] : i \in 1..Len(xs)} :
        \A i \in 1..Len(xs) : Le(xs[i], m)

\* the whole number floor(a)
Floor(a) == Call(<<"Floor", a>>)

(***************************************************************************)
(* The binary64 value of a number: 53 significant bits, rounded to the     *)
(* nearest, ties to the even significand.  The numbers of the model are    *)
(* far from the subnormal and the infinite.                                *)
(***************************************************************************)
\* 2^e for an integer e
PowerOfTwo(e) == Call(<<"PowerOfTwo", e>>)

\* the e with 2^e <= a < 2^(e+1) for a > 0, searched from e
BinaryExponent(a, e) == Call(<<"BinaryExponent", a, e>>)

\* the double nearest to q
RoundToDouble(q) == Call(<<"RoundToDouble", q>>)

(***************************************************************************)
(* Math.cos and Math.sin of a rational multiple of pi                      *)
(***************************************************************************)
\* The series are summed in naturals scaled by 10^20 = Base^5
ScaleLimbs == 5
One == <<0, 0, 0, 0, 0, 1>>
\* pi * 10^20
PiScaled == <<3846, 7932, 3589, 9265, 1415, 3>>

\* x * y / 10^20 for scaled x and y
ScaledMul(x, y) == Call(<<"ScaledMul", x, y>>)

\* first - next + ... , scaled, for the first term and its index k: the
\* term after a term of index k is the term * xx / ((k + 1) * (k + 2))
SeriesSum(first, xx, k) == Call(<<"SeriesSum", first, xx, k>>)

\* t * pi, scaled, for a rational t >= 0
ScaledAngle(t) == NatDivMod(NatMul(PiScaled, Numer(t)), Denom(t)).q

\* cos(t * pi) and sin(t * pi) for 0 <= t <= 1/4, scaled
CosSeries(t) == Call(<<"CosSeries", ScaledAngle(t)>>)
SinSeries(t) == Call(<<"SinSeries", ScaledAngle(t)>>)

\* a scaled value rounded to 16 decimals, as a number
FromScaled(v) == Call(<<"FromScaled", v>>)

\* cos(t * pi) for 0 <= t <= 1/2: exact where the cosine is rational
CosFirstQuadrant(t) == Call(<<"CosFirstQuadrant", t>>)

\* Math.cos(a * pi)
cos(a) == Call(<<"cos", a>>)

\* Math.sin(a * pi) = cos(a * pi - pi / 2)
sin(a) == cos(Sub(a, Rat(1, 2)))

(***************************************************************************)
(* The functions on numbers, by name                                       *)
(***************************************************************************)
Call(c) ==
    CASE c[1] = "Add" ->
            LET a == c[2]
                b == c[3]
            IN  IF IsSmall(a) /\ IsSmall(b)
                THEN LET g == GCD(a[2], b[2])
                         p == b[2] \div g
                         q == a[2] \div g
                     IN  IF /\ Fits(a[1], p, SmallMax \div 2)
                            /\ Fits(b[1], q, SmallMax \div 2)
                            /\ Fits(q, b[2], SmallMax)
                         THEN Rat(a[1] * p + b[1] * q, q * b[2])
                         ELSE AddBig(a, b)
                ELSE AddBig(a, b)
      [] c[1] = "Mul" ->
            LET a == c[2]
                b == c[3]
            IN  IF IsSmall(a) /\ IsSmall(b)
                THEN LET g1 == GCD(Abs(a[1]), b[2])
                         g2 == GCD(Abs(b[1]), a[2])
                     IN  IF /\ Fits(a[1] \div g1, b[1] \div g2, SmallMax)
                            /\ Fits(a[2] \div g2, b[2] \div g1, SmallMax)
                         THEN Rat((a[1] \div g1) * (b[1] \div g2),
                                  (a[2] \div g2) * (b[2] \div g1))
                         ELSE MulBig(a, b)
                ELSE MulBig(a, b)
      [] c[1] = "Cmp" ->
            LET a == c[2]
                b == c[3]
            IN  IF IsSmall(a) /\ IsSmall(b)
                THEN LET g == GCD(a[2], b[2])
                         p == b[2] \div g
                         q == a[2] \div g
                     IN  IF Fits(a[1], p, 2 * SmallMax) /\ Fits(b[1], q, 2 * SmallMax)
                         THEN (IF a[1] * p < b[1] * q THEN -1
                               ELSE IF a[1] * p > b[1] * q THEN 1 ELSE 0)
                         ELSE CmpBig(a, b)
                ELSE CmpBig(a, b)
      [] c[1] = "Rat" ->
            \* n / d in lowest terms, for machine integers n and d # 0
            LET n == c[2]
                d == c[3]
                g == GCD(Abs(n), Abs(d))
                s == IF d < 0 THEN -1 ELSE 1
            IN  <<(s * n) \div g, (s * d) \div g>>
      [] c[1] = "Inverse" ->
            LET b == c[2]
            IN  IF IsSmall(b) THEN Rat(b[2], b[1])
                ELSE <<b[1], Len(b) - 2 - b[2]>> \o Denom(b) \o Numer(b)
      [] c[1] = "Iterate" ->
            \* 64 steps, and on from there when that state is not done
            LET t == Call(<<"Iterate8", "Iterate8", <<c[2], c[3]>>, c[4]>>)
            IN  IF t.done THEN t ELSE Iterate(c[2], c[3], t)
      [] c[1] = "Iterate8" ->
            \* the first state that is done among s and the next 7, or the 8th
            LET step == c[2]
                ctx == c[3]
                s == c[4]
                s1 == Call(<<step>> \o ctx \o <<s>>)
                s2 == Call(<<step>> \o ctx \o <<s1>>)
                s3 == Call(<<step>> \o ctx \o <<s2>>)
                s4 == Call(<<step>> \o ctx \o <<s3>>)
                s5 == Call(<<step>> \o ctx \o <<s4>>)
                s6 == Call(<<step>> \o ctx \o <<s5>>)
                s7 == Call(<<step>> \o ctx \o <<s6>>)
            IN  CASE s.done -> s [] s1.done -> s1 [] s2.done -> s2
                  [] s3.done -> s3 [] s4.done -> s4 [] s5.done -> s5
                  [] s6.done -> s6 [] s7.done -> s7
                  [] OTHER -> Call(<<step>> \o ctx \o <<s7>>)
      [] c[1] = "NatTrim" ->
            LET a == c[2]
                n == Len(a)
            IN  IF n = 0 \/ a[n] # 0 THEN a
                ELSE SubSeq(a, 1, CHOOSE m \in 0..n :
                                      /\ m = 0 \/ a[m] # 0
                                      /\ \A k \in (m + 1)..n : a[k] = 0)
      [] c[1] = "NatCmp" ->
            LET a == c[2]
                b == c[3]
            IN  IF Len(a) # Len(b) THEN (IF Len(a) < Len(b) THEN -1 ELSE 1)
                ELSE LET differ == {i \in 1..Len(a) : a[i] # b[i]}
                     IN  IF differ = {} THEN 0
                         ELSE LET top == CHOOSE m \in differ : \A k \in differ : k <= m
                              IN  IF a[top] < b[top] THEN -1 ELSE 1
      [] c[1] = "NatCarryStep" ->
            \* one limb of the columns cols, with the carry from the limbs below
            LET cols == c[2]
                s == c[3]
            IN  IF s.done THEN s
                ELSE LET v == Limb(cols, Len(s.d) + 1) + s.c
                     IN  [d |-> Append(s.d, v % Base), c |-> v \div Base,
                          done |-> Len(s.d) + 1 >= Len(cols) /\ v < Base]
      [] c[1] = "NatCarry" ->
            LET cols == c[2]
            IN  NatTrim(Iterate("NatCarryStep", <<cols>>,
                                [d |-> <<>>, c |-> 0, done |-> Len(cols) = 0]).d)
      [] c[1] = "NatAdd" ->
            LET a == c[2]
                b == c[3]
                n == IF Len(a) > Len(b) THEN Len(a) ELSE Len(b)
            IN  NatCarry(SubSeq([i \in 1..n |-> Limb(a, i) + Limb(b, i)], 1, n))
      [] c[1] = "NatSub" ->
            \* the limbs of a + (Base - 1 - b) + 1 without the carry out of
            \* the top
            LET a == c[2]
                b == c[3]
                n == Len(a)
            IN  IF n = 0 THEN <<>>
                ELSE Call(<<"NatSubTop", n, NatCarry(SubSeq([i \in 1..n |->
                                   a[i] + (Base - 1 - Limb(b, i))
                                        + (IF i = 1 THEN 1 ELSE 0)], 1, n))>>)
      [] c[1] = "NatSubTop" ->
            LET n == c[2]
                sum == c[3]
            IN  NatTrim(SubSeq(sum, 1, IF Len(sum) < n THEN Len(sum) ELSE n))
      [] c[1] = "NatMulSmall" ->
            LET a == c[2]
                m == c[3]
            IN  IF m = 0 THEN <<>>
                ELSE NatCarry(SubSeq([i \in 1..Len(a) |-> a[i] * m], 1, Len(a)))
      [] c[1] = "NatColumn" ->
            LET a == c[2]
                b == c[3]
                k == c[4]
                lo == c[5]
                hi == c[6]
            IN  IF lo = hi THEN a[lo] * b[k - lo + 1]
                ELSE NatColumn(a, b, k, lo, (lo + hi) \div 2)
                         + NatColumn(a, b, k, (lo + hi) \div 2 + 1, hi)
      [] c[1] = "NatMul" ->
            LET a == c[2]
                b == c[3]
            IN  IF Len(a) = 0 \/ Len(b) = 0 THEN <<>>
                ELSE NatCarry(SubSeq([k \in 1..(Len(a) + Len(b) - 1) |->
                        NatColumn(a, b, k,
                                  IF k - Len(b) + 1 > 1 THEN k - Len(b) + 1 ELSE 1,
                                  IF k < Len(a) THEN k ELSE Len(a))],
                        1, Len(a) + Len(b) - 1))
      [] c[1] = "NatDivSmallStep" ->
            \* one limb of the quotient of a by m, from the top limb down
            LET a == c[2]
                m == c[3]
                s == c[4]
            IN  IF s.done THEN s
                ELSE LET cur == s.r * Base + a[s.i]
                     IN  [q |-> <<cur \div m>> \o s.q, r |-> cur % m,
                          i |-> s.i - 1, done |-> s.i = 1]
      [] c[1] = "NatDivSmall" ->
            LET a == c[2]
                m == c[3]
                res == Iterate("NatDivSmallStep", <<a, m>>,
                               [q |-> <<>>, r |-> 0, i |-> Len(a),
                                done |-> Len(a) = 0])
            IN  [q |-> NatTrim(res.q), r |-> res.r]
      [] c[1] = "NatFixQ" ->
            LET b == c[2]
                r == c[3]
                qhat == c[4]
            IN  IF NatCmp(NatMulSmall(b, qhat), r) <= 0 THEN qhat
                ELSE IF NatCmp(NatMulSmall(b, qhat - 1), r) <= 0 THEN qhat - 1
                ELSE qhat - 2
      [] c[1] = "NatLongDivStep" ->
            \* one limb of the quotient of a by b, whose top limb is at least
            \* Base / 2, from the top limb down
            LET a == c[2]
                b == c[3]
                s == c[4]
            IN  IF s.done THEN s
                ELSE Call(<<"NatLongDivLimb", b, s, NatTrim(<<a[s.i]>> \o s.r)>>)
      [] c[1] = "NatLongDivLimb" ->
            \* the limb for the remainder so far with the next limb of a, cur
            LET b == c[2]
                s == c[3]
                cur == c[4]
                n == Len(b)
                est == (Limb(cur, n + 1) * Base + Limb(cur, n)) \div b[n]
            IN  Call(<<"NatLongDivNext", b, s, cur,
                       IF Len(cur) < n THEN 0
                       ELSE NatFixQ(b, cur, IF est > Base - 1 THEN Base - 1 ELSE est)>>)
      [] c[1] = "NatLongDivNext" ->
            LET b == c[2]
                s == c[3]
                cur == c[4]
                q == c[5]
            IN  [q |-> <<q>> \o s.q, r |-> NatSub(cur, NatMulSmall(b, q)),
                 i |-> s.i - 1, done |-> s.i = 1]
      [] c[1] = "NatDivMod" ->
            LET a == c[2]
                b == c[3]
            IN  IF NatCmp(a, b) < 0 THEN [q |-> <<>>, r |-> a]
                ELSE IF Len(b) = 1
                     THEN LET res == NatDivSmall(a, b[1])
                          IN  [q |-> res.q, r |-> NatFromInt(res.r)]
                ELSE Call(<<"NatLongDiv", a, b, Base \div (b[Len(b)] + 1)>>)
      [] c[1] = "NatLongDiv" ->
            \* a and b are scaled by d, which makes the top limb of b at
            \* least Base / 2
            LET d == c[4]
                num == NatMulSmall(c[2], d)
                res == Iterate("NatLongDivStep", <<num, NatMulSmall(c[3], d)>>,
                               [q |-> <<>>, r |-> <<>>, i |-> Len(num),
                                done |-> FALSE])
            IN  [q |-> NatTrim(res.q), r |-> NatDivSmall(res.r, d).q]
      [] c[1] = "NatGCDStep" ->
            \* one step of Euclid's algorithm, finished by machine integers
            LET s == c[2]
            IN  IF s.done THEN s
                ELSE IF NatIsSmall(s.a) /\ NatIsSmall(s.b)
                     THEN [a |-> NatFromInt(GCD(NatToInt(s.a), NatToInt(s.b))),
                           b |-> <<>>, done |-> TRUE]
                ELSE LET r == NatDivMod(s.a, s.b).r
                     IN  [a |-> s.b, b |-> r, done |-> Len(r) = 0]
      [] c[1] = "NatGCD" ->
            LET a == c[2]
                b == c[3]
            IN  IF Len(b) = 0 THEN a
                ELSE Iterate("NatGCDStep", <<>>, [a |-> a, b |-> b, done |-> FALSE]).a
      [] c[1] = "NatExact" ->
            LET a == c[2]
                g == c[3]
            IN  IF g = <<1>> THEN a ELSE NatDivMod(a, g).q
      [] c[1] = "Fraction" ->
            LET s == c[2]
                n == c[3]
                d == c[4]
            IN  IF s = 0 \/ Len(n) = 0 THEN <<0, 1>>
                ELSE Call(<<"FractionBy", s, n, d, NatGCD(n, d)>>)
      [] c[1] = "FractionBy" ->
            LET g == c[5]
            IN  Quotient(c[2], NatExact(c[3], g), NatExact(c[4], g))
      [] c[1] = "AddBig" ->
            LET a == c[2]
                b == c[3]
            IN  IF Sign(a) = 0 THEN b
                ELSE IF Sign(b) = 0 THEN a
                ELSE Call(<<"AddOver", Sign(a), Numer(a), Denom(a),
                                       Sign(b), Numer(b), Denom(b)>>)
      [] c[1] = "AddOver" ->
            \* sa * na / da + sb * nb / db: the terms over the least common
            \* denominator
            LET na == c[3]
                da == c[4]
                nb == c[6]
                db == c[7]
                g == IF da = db THEN da
                     ELSE IF da = <<1>> \/ db = <<1>> THEN <<1>>
                     ELSE NatGCD(da, db)
            IN  Call(<<"AddTerms", c[2], c[5], da, db, g,
                                   NatMul(na, NatExact(db, g)),
                                   NatMul(nb, NatExact(da, g))>>)
      [] c[1] = "AddTerms" ->
            LET sa == c[2]
                sb == c[3]
                t1 == c[7]
                t2 == c[8]
            IN  Call(<<"AddReduce", IF sa = sb \/ NatCmp(t1, t2) >= 0 THEN sa ELSE sb,
                       IF sa = sb THEN NatAdd(t1, t2)
                       ELSE IF NatCmp(t1, t2) >= 0 THEN NatSub(t1, t2)
                       ELSE NatSub(t2, t1),
                       c[4], c[5], c[6]>>)
      [] c[1] = "AddReduce" ->
            \* s * t over the least common denominator, reduced by the
            \* divisor h common to t and g
            LET s == c[2]
                t == c[3]
                da == c[4]
                db == c[5]
                g == c[6]
                h == IF g = <<1>> \/ Len(t) = 0 THEN <<1>> ELSE NatGCD(t, g)
            IN  Quotient(s, NatExact(t, h),
                         NatMul(NatExact(da, g), NatExact(db, h)))
      [] c[1] = "MulBig" ->
            LET a == c[2]
                b == c[3]
            IN  IF Sign(a) = 0 \/ Sign(b) = 0 THEN <<0, 1>>
                ELSE Call(<<"MulOver", Sign(a) * Sign(b), Numer(a), Denom(a),
                                       Numer(b), Denom(b)>>)
      [] c[1] = "MulOver" ->
            LET na == c[3]
                da == c[4]
                nb == c[5]
                db == c[6]
                g1 == NatGCD(na, db)
                g2 == NatGCD(nb, da)
            IN  Quotient(c[2],
                         NatMul(NatExact(na, g1), NatExact(nb, g2)),
                         NatMul(NatExact(da, g2), NatExact(db, g1)))
      [] c[1] = "CmpBig" ->
            LET a == c[2]
                b == c[3]
            IN  IF Sign(a) # Sign(b) THEN (IF Sign(a) < Sign(b) THEN -1 ELSE 1)
                ELSE Sign(a) * NatCmp(NatMul(Numer(a), Denom(b)),
                                      NatMul(Numer(b), Denom(a)))
      [] c[1] = "Floor" ->
            LET a == c[2]
            IN  IF IsSmall(a) THEN N(a[1] \div a[2])
                ELSE Call(<<"FloorOf", Sign(a), NatDivMod(Numer(a), Denom(a))>>)
      [] c[1] = "FloorOf" ->
            LET s == c[2]
                res == c[3]
            IN  IF s > 0 THEN Fraction(1, res.q, <<1>>)
                ELSE IF Len(res.r) = 0 THEN Fraction(-1, res.q, <<1>>)
                ELSE Fraction(-1, NatAdd(res.q, <<1>>), <<1>>)
      [] c[1] = "ScaledMul" ->
            LET p == NatMul(c[2], c[3])
            IN  IF Len(p) <= ScaleLimbs THEN <<>>
                ELSE SubSeq(p, ScaleLimbs + 1, Len(p))
      [] c[1] = "SeriesStep" ->
            \* one term of an alternating series: terms are added and
            \* subtracted in turn
            LET xx == c[2]
                s == c[3]
            IN  IF s.done THEN s
                ELSE Call(<<"SeriesNext", s, NatDivSmall(ScaledMul(s.term, xx),
                                           (s.k + 1) * (s.k + 2)).q>>)
      [] c[1] = "SeriesNext" ->
            LET s == c[2]
                next == c[3]
            IN  [term |-> next, k |-> s.k + 2, add |-> ~s.add,
                 plus |-> IF s.add THEN NatAdd(s.plus, s.term) ELSE s.plus,
                 minus |-> IF s.add THEN s.minus ELSE NatAdd(s.minus, s.term),
                 done |-> Len(next) = 0]
      [] c[1] = "SeriesSum" ->
            Call(<<"SeriesTotal", Iterate("SeriesStep", <<c[3]>>,
                           [term |-> c[2], k |-> c[4], add |-> TRUE,
                            plus |-> <<>>, minus |-> <<>>, done |-> FALSE])>>)
      [] c[1] = "SeriesTotal" ->
            LET s == c[2]
            IN  NatSub(IF s.add THEN NatAdd(s.plus, s.term) ELSE s.plus,
                       IF s.add THEN s.minus ELSE NatAdd(s.minus, s.term))
      [] c[1] = "CosSeries" ->
            LET x == c[2] IN SeriesSum(One, ScaledMul(x, x), 0)
      [] c[1] = "SinSeries" ->
            LET x == c[2] IN SeriesSum(x, ScaledMul(x, x), 1)
      [] c[1] = "DecimalStep" ->
            \* one step of reducing n / d for a power of ten d: by 10, by 2
            \* or by 5
            LET s == c[2]
            IN  IF s.done THEN s
                ELSE Call(<<"DecimalBy", s, IF Len(s.n) = 0 \/ s.d = <<1>> THEN 1
                               ELSE IF s.n[1] % 10 = 0 /\ s.d[1] % 10 = 0 THEN 10
                               ELSE IF s.n[1] % 2 = 0 /\ s.d[1] % 2 = 0 THEN 2
                               ELSE IF s.n[1] % 5 = 0 /\ s.d[1] % 5 = 0 THEN 5
                               ELSE 1>>)
      [] c[1] = "DecimalBy" ->
            LET s == c[2]
                by == c[3]
            IN  IF by = 1 THEN [s EXCEPT !.done = TRUE]
                ELSE [n |-> NatDivSmall(s.n, by).q, d |-> NatDivSmall(s.d, by).q,
                      done |-> FALSE]
      [] c[1] = "FromScaled" ->
            LET res == Iterate("DecimalStep", <<>>,
                               [n |-> NatDivSmall(NatAdd(c[2], <<Base \div 2>>),
                                                  Base).q,
                                d |-> <<0, 0, 0, 0, 1>>, done |-> FALSE])
            IN  Quotient(1, res.n, res.d)
      [] c[1] = "CosFirstQuadrant" ->
            LET t == c[2]
            IN  IF t = N(0) THEN N(1)
                ELSE IF t = Rat(1, 3) THEN Rat(1, 2)
                ELSE IF t = Rat(1, 2) THEN N(0)
                ELSE IF Le(t, Rat(1, 4)) THEN FromScaled(CosSeries(t))
                ELSE FromScaled(SinSeries(Sub(Rat(1, 2), t)))
      [] c[1] = "cos" ->
            \* the angle is brought into a turn, then into half a turn
            LET a == c[2]
            IN  Call(<<"cosTurn", Sub(a, Mul(N(2), Floor(Div(a, N(2)))))>>)
      [] c[1] = "cosTurn" ->
            LET turn == c[2]
            IN  Call(<<"cosHalf", IF Lt(N(1), turn) THEN Sub(N(2), turn) ELSE turn>>)
      [] c[1] = "cosHalf" ->
            LET half == c[2]
            IN  IF Lt(Rat(1, 2), half) THEN Neg(CosFirstQuadrant(Sub(N(1), half)))
                ELSE CosFirstQuadrant(half)
      [] c[1] = "PowerOfTwo" ->
            LET e == c[2]
            IN  IF e < 0 THEN Inverse(Call(<<"PowerOfTwo", -e>>))
                ELSE IF e <= 30 THEN N(2 ^ e)
                ELSE Mul(N(2 ^ 30), Call(<<"PowerOfTwo", e - 30>>))
      [] c[1] = "BinaryExponent" ->
            LET a == c[2]
                e == c[3]
            IN  IF Lt(a, PowerOfTwo(e)) THEN Call(<<"BinaryExponent", a, e - 1>>)
                ELSE IF Le(PowerOfTwo(e + 1), a) THEN Call(<<"BinaryExponent", a, e + 1>>)
                ELSE e
      [] c[1] = "RoundToDouble" ->
            LET q == c[2]
            IN  IF Sign(q) = 0 THEN q
                ELSE Call(<<"RoundMagnitude", Sign(q), IF Sign(q) < 0 THEN Neg(q) ELSE q>>)
      [] c[1] = "RoundMagnitude" ->
            LET a == c[3]
                ulp == PowerOfTwo(BinaryExponent(a, 0) - 52)
            IN  Call(<<"RoundSignificand", c[2], Div(a, ulp), ulp>>)
      [] c[1] = "RoundSignificand" ->
            LET scaled == c[3]
                ulp == c[4]
                significand == Floor(scaled)
            IN  Call(<<"RoundTies", c[2], significand,
                       Cmp(Sub(scaled, significand), Rat(1, 2)),
                       Mul(Floor(Div(significand, N(2))), N(2)) # significand,
                       ulp>>)
      [] c[1] = "RoundTies" ->
            LET significand == c[3]
                rest == c[4]
                odd == c[5]
                r == Mul(IF rest > 0 \/ (rest = 0 /\ odd)
                         THEN Add(significand, N(1))
                         ELSE significand,
                         c[6])
            IN  IF c[2] < 0 THEN Neg(r) ELSE r
      [] OTHER -> Component(c)

(***************************************************************************)
(* Values                                                                  *)
(***************************************************************************)
\* null / undefined
Null == "null"
\* PositionedNode.angle of the tree layout, which sets none
NoAngle == <<>>

\* A MindMapNode: {id, label, children}
Node(id, label, children) == [id |-> id, label |-> label, children |-> children]

\* A single root
TreeOne == Node("r1", "Solo", <<>>)
\* Root -> [A, B], A -> [A1]
TreeThree ==
    Node("root", "Root",
         << Node("a", "A", << Node("a1", "A1", <<>>) >>),
            Node("b", "B", <<>>) >>)

Trees == {TreeOne, TreeThree}

(***************************************************************************)
(* calculateRadialLayout                                                   *)
(***************************************************************************)
baseRadius == 180
radiusIncrement == 160

\* Mutant: the radius grows from the base radius at level 0
radiusFromLevelZero(level) ==
    IF level = 0 THEN 0 ELSE baseRadius + level * radiusIncrement

\* const radius = level === 0 ? 0 : baseRadius + (level - 1) * radiusIncrement
radius(level) ==
    IF level = 0 THEN 0 ELSE baseRadius + (level - 1) * radiusIncrement

\* Mutant: a node is placed at the start of its sector
sectorAngleAtStart(level, startAngle, endAngle) ==
    IF level = 0 THEN N(0) ELSE startAngle

\* const angle = level === 0 ? 0 : (startAngle + endAngle) / 2
sectorAngle(level, startAngle, endAngle) ==
    IF level = 0 THEN N(0) ELSE Div(Add(startAngle, endAngle), N(2))

RECURSIVE calculateRadialLayout(_, _, _, _, _, _, _)
RECURSIVE RadialChildren(_, _, _, _, _, _, _, _)

\* Mutant: every child inherits its parent's whole sector
RadialChildrenFullSector(children, index, centerX, centerY, level, startAngle, endAngle, parent) ==
    IF index > Len(children) THEN <<>>
    ELSE calculateRadialLayout(children[index], centerX, centerY, level + 1,
                               startAngle, endAngle, parent)
         \o RadialChildren(children, index + 1, centerX, centerY, level,
                           startAngle, endAngle, parent)

\* Mutant: the loop over the children stops before the last child
RadialChildrenSkipLast(children, index, centerX, centerY, level, startAngle, endAngle, parent) ==
    IF index >= Len(children) THEN <<>>
    ELSE
        LET childAngleStep == Div(Sub(endAngle, startAngle), N(Len(children)))
            childStartAngle == Add(startAngle, Mul(N(index - 1), childAngleStep))
            childEndAngle == Add(childStartAngle, childAngleStep)
        IN  calculateRadialLayout(children[index], centerX, centerY, level + 1,
                                  childStartAngle, childEndAngle, parent)
            \o RadialChildren(children, index + 1, centerX, centerY, level,
                              startAngle, endAngle, parent)

\* node.children.forEach of calculateRadialLayout, from child `index` on
RadialChildren(children, index, centerX, centerY, level, startAngle, endAngle, parent) ==
    IF index > Len(children) THEN <<>>
    ELSE
        LET childCount == Len(children)
            angleRange == Sub(endAngle, startAngle)
            childAngleStep == Div(angleRange, N(childCount))
            \* forEach's index is zero-based
            childStartAngle == Add(startAngle, Mul(N(index - 1), childAngleStep))
            childEndAngle == Add(childStartAngle, childAngleStep)
        IN  calculateRadialLayout(children[index], centerX, centerY, level + 1,
                                  childStartAngle, childEndAngle, parent)
            \o RadialChildren(children, index + 1, centerX, centerY, level,
                              startAngle, endAngle, parent)

calculateRadialLayout(node, centerX, centerY, level, startAngle, endAngle, parent) ==
    LET angle == sectorAngle(level, startAngle, endAngle)
        x == Add(centerX, Mul(N(radius(level)), cos(angle)))
        y == Add(centerY, Mul(N(radius(level)), sin(angle)))
        positionedNode ==
            [node |-> node.id, x |-> x, y |-> y, level |-> level,
             parent |-> parent, angle |-> angle]
    IN  <<positionedNode>>
        \o RadialChildren(node.children, 1, centerX, centerY, level,
                          startAngle, endAngle, node.id)

(***************************************************************************)
(* calculateTreeLayout                                                     *)
(***************************************************************************)
nodeWidth == 160
nodeHeight == 50
horizontalGap == 80
verticalGap == 30

\* Mutant: each level is one node width further right, without the gap
treeXNoGap(startX, level) == Add(startX, N(level * nodeWidth))

\* Mutant: the root's column is counted as level 1
treeXLevelPlusOne(startX, level) ==
    Add(startX, N((level + 1) * (nodeWidth + horizontalGap)))

\* const x = startX + level * (nodeWidth + horizontalGap)
treeX(startX, level) == Add(startX, N(level * (nodeWidth + horizontalGap)))

\* xs.find(p => p.level === level)?.y  (Null when none is found)
FindLevelY(xs, level) ==
    IF \E i \in 1..Len(xs) : xs[i].level = level
    THEN xs[CHOOSE i \in 1..Len(xs) :
                /\ xs[i].level = level
                /\ \A j \in 1..(i - 1) : xs[j].level # level].y
    ELSE Null

\* Mutant: the y of the last positioned descendant, of whatever level
FindLastY(xs, level) == IF Len(xs) > 0 THEN xs[Len(xs)].y ELSE Null

\* [...xs].reverse().find(p => p.level === level)?.y
FindLastLevelY(xs, level) ==
    IF \E i \in 1..Len(xs) : xs[i].level = level
    THEN xs[CHOOSE i \in 1..Len(xs) :
                /\ xs[i].level = level
                /\ \A j \in (i + 1)..Len(xs) : xs[j].level # level].y
    ELSE Null

\* v || dflt for a number v: undefined and 0 are falsy
OrElse(v, dflt) == IF v = Null \/ v = N(0) THEN dflt ELSE v

RECURSIVE calculateTreeLayout(_, _, _, _, _)
RECURSIVE TreeChildren(_, _, _, _, _, _, _, _)

\* Mutant: the cursor advances by the subtree's height, without the gap
TreeChildrenNoGap(children, index, startX, currentY, level, parent, totalHeight, childPositions) ==
    IF index > Len(children)
    THEN [positions |-> childPositions, height |-> totalHeight]
    ELSE
        LET result == calculateTreeLayout(children[index], startX, currentY,
                                          level + 1, parent)
        IN  TreeChildren(children, index + 1, startX,
                Add(currentY, N(result.height)),
                level, parent,
                totalHeight + result.height
                    + (IF index - 1 < Len(children) - 1 THEN verticalGap ELSE 0),
                childPositions \o result.positions)

\* Mutant: the cursor advances by one row per child, whatever the child's
\* subtree took
TreeChildrenOneRow(children, index, startX, currentY, level, parent, totalHeight, childPositions) ==
    IF index > Len(children)
    THEN [positions |-> childPositions, height |-> totalHeight]
    ELSE
        LET result == calculateTreeLayout(children[index], startX, currentY,
                                          level + 1, parent)
        IN  TreeChildren(children, index + 1, startX,
                Add(currentY, N(nodeHeight + verticalGap)),
                level, parent,
                totalHeight + result.height
                    + (IF index - 1 < Len(children) - 1 THEN verticalGap ELSE 0),
                childPositions \o result.positions)

\* node.children.forEach of calculateTreeLayout, from child `index` on,
\* carrying currentY, totalHeight and childPositions
TreeChildren(children, index, startX, currentY, level, parent, totalHeight, childPositions) ==
    IF index > Len(children)
    THEN [positions |-> childPositions, height |-> totalHeight]
    ELSE
        LET result == calculateTreeLayout(children[index], startX, currentY,
                                          level + 1, parent)
        IN  TreeChildren(children, index + 1, startX,
                Add(currentY, N(result.height + verticalGap)),
                level, parent,
                totalHeight + result.height
                    + (IF index - 1 < Len(children) - 1 THEN verticalGap ELSE 0),
                childPositions \o result.positions)

calculateTreeLayout(node, startX, startY, level, parent) ==
    LET x == treeX(startX, level)
        positionedNode ==
            [node |-> node.id, x |-> x, y |-> startY, level |-> level,
             parent |-> parent, angle |-> NoAngle]
    IN  IF Len(node.children) = 0
        THEN [positions |-> <<positionedNode>>, height |-> nodeHeight]
        ELSE
            LET r == TreeChildren(node.children, 1, startX, startY, level,
                                  node.id, 0, <<>>)
                childPositions == r.positions
                firstChildY == OrElse(FindLevelY(childPositions, level + 1), startY)
                lastChildY == OrElse(FindLastLevelY(childPositions, level + 1), startY)
                centred == [positionedNode EXCEPT
                               !.y = Div(Add(firstChildY, lastChildY), N(2))]
            IN  [positions |-> <<centred>> \o childPositions, height |-> r.height]

(***************************************************************************)
(* The memoised layout: positions and bounds for a root and a layout mode. *)
(* A PositionedNode refers to its MindMapNode and to its parent by the     *)
(* node's id.                                                              *)
(***************************************************************************)
Xs(pos) == [i \in 1..Len(pos) |-> pos[i].x]
Ys(pos) == [i \in 1..Len(pos) |-> pos[i].y]

\* Mutant: width and height measured from the maximum back to the minimum
MakeBoundsBackwards(minX, maxX, minY, maxY) ==
    [minX |-> minX, maxX |-> maxX, minY |-> minY, maxY |-> maxY,
     width |-> Sub(minX, maxX), height |-> Sub(minY, maxY)]

MakeBounds(minX, maxX, minY, maxY) ==
    [minX |-> minX, maxX |-> maxX, minY |-> minY, maxY |-> maxY,
     width |-> Sub(maxX, minX), height |-> Sub(maxY, minY)]

LayoutMemo(root, mode) ==
    IF mode = "radial"
    THEN
        LET centerX == N(600)
            centerY == N(400)
            pos == calculateRadialLayout(root, centerX, centerY, 0, N(0), N(2), Null)
        IN  [positions |-> pos,
             bounds |-> MakeBounds(Sub(MinOf(Xs(pos)), N(100)),
                                   Add(MaxOf(Xs(pos)), N(100)),
                                   Sub(MinOf(Ys(pos)), N(50)),
                                   Add(MaxOf(Ys(pos)), N(50)))]
    ELSE
        LET startX == N(80)
            startY == N(50)
            pos == calculateTreeLayout(root, startX, startY, 0, Null).positions
        IN  [positions |-> pos,
             bounds |-> MakeBounds(Sub(MinOf(Xs(pos)), N(20)),
                                   Add(MaxOf(Xs(pos)), N(180)),
                                   Sub(MinOf(Ys(pos)), N(30)),
                                   Add(MaxOf(Ys(pos)), N(60)))]

(***************************************************************************)
(* The size a node is drawn with                                           *)
(***************************************************************************)
\* getNodeWidth(text, level); text.length is Len(text)
getNodeWidth(text, level) ==
    LET baseWidth == IF level = 0 THEN 180 ELSE 140
        charWidth == IF level = 0 THEN 9 ELSE 7
        wanted == Len(text) * charWidth + 32
        atLeast == IF wanted > baseWidth THEN wanted ELSE baseWidth
    IN  IF atLeast < 220 THEN atLeast ELSE 220

\* getNodeHeight(level)
getNodeHeight(level) == IF level = 0 THEN 48 ELSE 36

\* The palette, Root to Level 5
LEVEL_COLORS ==
    << [bg |-> "#6366F1", border |-> "#4F46E5", text |-> "#FFFFFF"],
       [bg |-> "#8B5CF6", border |-> "#7C3AED", text |-> "#FFFFFF"],
       [bg |-> "#EC4899", border |-> "#DB2777", text |-> "#FFFFFF"],
       [bg |-> "#F59E0B", border |-> "#D97706", text |-> "#FFFFFF"],
       [bg |-> "#10B981", border |-> "#059669", text |-> "#FFFFFF"],
       [bg |-> "#06B6D4", border |-> "#0891B2", text |-> "#FFFFFF"] >>

\* Mutant: the palette index cycles through the palette
paletteIndexCycling(level) == level % Len(LEVEL_COLORS)

\* Math.min(level, LEVEL_COLORS.length - 1), the zero-based palette index of
\* getColors and of the gradient fill
paletteIndex(level) ==
    IF level < Len(LEVEL_COLORS) - 1 THEN level ELSE Len(LEVEL_COLORS) - 1

\* getColors(level); sequences are one-based
getColors(level) == LEVEL_COLORS[paletteIndex(level) + 1]

\* fill={`url(#gradient-${Math.min(pos.level, LEVEL_COLORS.length - 1)})`}:
\* the number of the gradient
gradientOf(level) == paletteIndex(level)

\* Mutant: the label is cut after 25 characters and the dots are added
nodeTextCutAt25(label) ==
    IF Len(label) > 25 THEN SubSeq(label, 1, 25) \o "..." ELSE label

\* The text a node shows:
\* label.length > 25 ? label.substring(0, 22) + '...' : label
nodeText(label) ==
    IF Len(label) > 25 THEN SubSeq(label, 1, 22) \o "..." ELSE label

\* Mutant: a connection for every positioned node, the root included
connectionsForEveryNode(pos, mode) ==
    [i \in 1..Len(pos) |->
        [key |-> "connection-" \o pos[i].node, from |-> pos[i].parent,
         to |-> pos[i].node]]

\* positions.map(pos => pos.parent ? <path .../> : null): the paths drawn, each
\* with its key and the nodes it joins
connections(pos, mode) ==
    LET HasParent(q) == q.parent # Null
        drawn == SelectSeq(pos, HasParent)
    IN  [i \in 1..Len(drawn) |->
            [key |-> "connection-" \o drawn[i].node, from |-> drawn[i].parent,
             to |-> drawn[i].node]]

(***************************************************************************)
(* Trees for the layout functions: ten shapes of up to four levels, the    *)
(* root labelled rl and every other node nl, a deep chain and labels at    *)
(* the truncation threshold                                                *)
(***************************************************************************)
Labels == {"Solo", "Seventeen letters", "A label of thirty characters.."}

Shapes(rl, nl) ==
    { Node("r", rl, <<>>),
      Node("r", rl, << Node("a", nl, <<>>) >>),
      Node("r", rl, << Node("a", nl, <<>>), Node("b", nl, <<>>) >>),
      Node("r", rl, << Node("a", nl, << Node("a1", nl, <<>>) >>),
                       Node("b", nl, <<>>) >>),
      Node("r", rl, << Node("a", nl, <<>>),
                       Node("b", nl, << Node("b1", nl, <<>>),
                                        Node("b2", nl, <<>>) >>) >>),
      Node("r", rl, << Node("a", nl, << Node("a1", nl, <<>>),
                                        Node("a2", nl, <<>>),
                                        Node("a3", nl, <<>>) >>),
                       Node("b", nl, <<>>) >>),
      Node("r", rl, << Node("a", nl, <<>>), Node("b", nl, <<>>),
                       Node("c", nl, <<>>) >>),
      Node("r", rl, << Node("a", nl, <<>>), Node("b", nl, <<>>),
                       Node("c", nl, <<>>), Node("d", nl, <<>>) >>),
      Node("r", rl, << Node("a", nl,
                            << Node("a1", nl, << Node("a11", nl, <<>>) >>) >>) >>),
      Node("r", rl, << Node("a", nl, << Node("a1", nl, <<>>),
                                        Node("a2", nl, <<>>) >>),
                       Node("b", nl, << Node("b1", nl, <<>>),
                                        Node("b2", nl, <<>>) >>) >>) }

\* A chain of six levels, 0 to 5, one node for each entry of the palette
DeepChain ==
    Node("r", "Root", << Node("c1", "One", << Node("c2", "Two",
        << Node("c3", "Three", << Node("c4", "Four",
        << Node("c5", "Five", <<>>) >>) >>) >>) >>) >>)

\* Labels of 25 and of 26 characters, on either side of the truncation
ThresholdTrees ==
    { Node("r", "Twenty-five characters ok", <<>>),
      Node("r", "Twenty-six characters long", <<>>),
      Node("r", "Twenty-five characters ok",
           << Node("a", "Twenty-six characters long", <<>>) >>) }

\* A root with n leaves: sectors of a turn that is no multiple of 30 degrees
FanIds == << "a", "b", "c", "d", "e", "f", "g", "h" >>

Fan(n) == Node("r", "Root", [i \in 1..n |-> Node(FanIds[i], "Leaf", <<>>)])

FanTrees == {Fan(5), Fan(8)}

LayoutTrees ==
    UNION {Shapes(rl, nl) : rl \in Labels, nl \in Labels}
        \cup {DeepChain} \cup ThresholdTrees \cup FanTrees

AllTrees == Trees \cup LayoutTrees

\* The roots the page replaces the root of the layout with
ReplacementTrees == {TreeThree, DeepChain}

(***************************************************************************)
(* Bounds of the model and the inputs the events draw from                 *)
(***************************************************************************)
\* events after the first commit, with every event enabled
MaxSteps == 3
\* wheel and zoom-button events since the last fit, with the zoom events alone
MaxZoomDepth == 5
\* updates waiting for a render, with the zoom events alone
MaxQueue == 3
\* the levels the palette is asked for
MaxLevel == 9

\* clientWidth x clientHeight of the canvas container
ClientSizes == {<<800, 600>>, <<300, 200>>, <<0, 0>>}
\* clientX, clientY of a mouse event
Pointers == {<<100, 100>>, <<130, 80>>}
\* e.button: primary, secondary
Buttons == {0, 2}
\* e.deltaY: scroll up, scroll down
DeltaYs == {-100, 100}
Layouts == {"tree", "radial"}

\* useMemo(() => {...}, [rootNode, layout]) for the roots and modes of the model
MemoTable ==
    [root \in AllTrees, mode \in Layouts |-> Call(<<"LayoutMemo", root, mode>>)]

(***************************************************************************)
(* Events and points                                                       *)
(***************************************************************************)
Event(type, button, x, y, arg) ==
    [type |-> type, button |-> button, x |-> x, y |-> y, arg |-> arg]

Point(x, y) == [x |-> x, y |-> y]

(***************************************************************************)
(* The fit computation: the effect on [layout, bounds] and resetView       *)
(***************************************************************************)
\* Mutant: the effect without the 0.4 floor on the zoom it stores
centerViewEffectNoFloor(refSet, size, b, z, p) ==
    IF refSet
    THEN
        LET containerWidth == N(size[1])
            containerHeight == N(size[2])
            initialZoom ==
                Min2(Min2(Mul(Div(containerWidth, b.width), Rat(9, 10)),
                          Mul(Div(containerHeight, b.height), Rat(9, 10))),
                     N(1))
        IN  [zoom |-> Min2(initialZoom, N(1)),
             pan |-> Point(
                Sub(Div(Sub(containerWidth, Mul(b.width, initialZoom)), N(2)),
                    Mul(b.minX, initialZoom)),
                Sub(Div(Sub(containerHeight, Mul(b.height, initialZoom)), N(2)),
                    Mul(b.minY, initialZoom)))]
    ELSE [zoom |-> z, pan |-> p]

\* Mutant: the effect with a margin factor of 1.1 for 0.9
centerViewEffectWide(refSet, size, b, z, p) ==
    IF refSet
    THEN
        LET containerWidth == N(size[1])
            containerHeight == N(size[2])
            initialZoom ==
                Min2(Min2(Mul(Div(containerWidth, b.width), Rat(11, 10)),
                          Mul(Div(containerHeight, b.height), Rat(11, 10))),
                     N(1))
        IN  [zoom |-> Max2(Rat(4, 10), Min2(initialZoom, N(1))),
             pan |-> Point(
                Sub(Div(Sub(containerWidth, Mul(b.width, initialZoom)), N(2)),
                    Mul(b.minX, initialZoom)),
                Sub(Div(Sub(containerHeight, Mul(b.height, initialZoom)), N(2)),
                    Mul(b.minY, initialZoom)))]
    ELSE [zoom |-> z, pan |-> p]

\* useEffect(() => {...}, [layout, bounds]): the viewport it leaves
centerViewEffect(refSet, size, b, z, p) ==
    IF refSet
    THEN
        LET containerWidth == N(size[1])
            containerHeight == N(size[2])
            initialZoom ==
                Min2(Min2(Mul(Div(containerWidth, b.width), Rat(9, 10)),
                          Mul(Div(containerHeight, b.height), Rat(9, 10))),
                     N(1))
        IN  [zoom |-> Max2(Rat(4, 10), Min2(initialZoom, N(1))),
             pan |-> Point(
                Sub(Div(Sub(containerWidth, Mul(b.width, initialZoom)), N(2)),
                    Mul(b.minX, initialZoom)),
                Sub(Div(Sub(containerHeight, Mul(b.height, initialZoom)), N(2)),
                    Mul(b.minY, initialZoom)))]
    ELSE [zoom |-> z, pan |-> p]

\* Mutant: resetView restoring the zoom and leaving pan as it is
resetViewZoomOnly(refSet, size, b, z, p) ==
    IF refSet
    THEN
        LET containerWidth == N(size[1])
            containerHeight == N(size[2])
            initialZoom ==
                Min2(Min2(Mul(Div(containerWidth, b.width), Rat(9, 10)),
                          Mul(Div(containerHeight, b.height), Rat(9, 10))),
                     N(1))
        IN  [zoom |-> Max2(Rat(4, 10), Min2(initialZoom, N(1))), pan |-> p]
    ELSE [zoom |-> z, pan |-> p]

\* resetView: the viewport it leaves
resetView(refSet, size, b, z, p) ==
    IF refSet
    THEN
        LET containerWidth == N(size[1])
            containerHeight == N(size[2])
            initialZoom ==
                Min2(Min2(Mul(Div(containerWidth, b.width), Rat(9, 10)),
                          Mul(Div(containerHeight, b.height), Rat(9, 10))),
                     N(1))
        IN  [zoom |-> Max2(Rat(4, 10), Min2(initialZoom, N(1))),
             pan |-> Point(
                Sub(Div(Sub(containerWidth, Mul(b.width, initialZoom)), N(2)),
                    Mul(b.minX, initialZoom)),
                Sub(Div(Sub(containerHeight, Mul(b.height, initialZoom)), N(2)),
                    Mul(b.minY, initialZoom)))]
    ELSE [zoom |-> z, pan |-> p]

\* The zoom the effect and resetView store, in the code's arithmetic: the
\* literals 0.9 and 0.4, the quotients and the products are doubles
fitZoomDouble(size, b) ==
    LET containerWidth == N(size[1])
        containerHeight == N(size[2])
        initialZoom ==
            Min2(Min2(RoundToDouble(
                          Mul(RoundToDouble(Div(containerWidth, RoundToDouble(b.width))),
                              RoundToDouble(Rat(9, 10)))),
                      RoundToDouble(
                          Mul(RoundToDouble(Div(containerHeight, RoundToDouble(b.height))),
                              RoundToDouble(Rat(9, 10))))),
                 N(1))
    IN  Max2(RoundToDouble(Rat(4, 10)), Min2(initialZoom, N(1)))

(***************************************************************************)
(* The zoom updaters                                                       *)
(***************************************************************************)
\* Mutant: the wheel updater without its upper clamp
wheelZoomNoUpper(z, deltaY) ==
    LET delta == IF deltaY > 0 THEN Rat(9, 10) ELSE Rat(11, 10)
    IN  Max2(Mul(z, delta), Rat(2, 10))

\* handleWheel: z => Math.min(Math.max(z * delta, 0.2), 2)
wheelZoom(z, deltaY) ==
    LET delta == IF deltaY > 0 THEN Rat(9, 10) ELSE Rat(11, 10)
    IN  Min2(Max2(Mul(z, delta), Rat(2, 10)), N(2))

\* Zoom In button: z => Math.min(z * 1.2, 2)
zoomInUpdater(z) == Min2(Mul(z, Rat(12, 10)), N(2))

\* Zoom Out button: z => Math.max(z * 0.8, 0.2)
zoomOutUpdater(z) == Max2(Mul(z, Rat(8, 10)), Rat(2, 10))

(***************************************************************************)
(* The updates of the useState hooks.  An update carries the lane of the   *)
(* event that dispatched it: SyncLane for a click, a mouse-down and a      *)
(* mouse-up, InputContinuousLane for a wheel, mouse-move, mouse-enter and  *)
(* mouse-leave event, DefaultLane for the effect.  An update that was      *)
(* rendered and is kept behind an update that was not has no lane.         *)
(***************************************************************************)
SyncLane == "SyncLane"
InputContinuousLane == "InputContinuousLane"
DefaultLane == "DefaultLane"
NoLane == "NoLane"

\* The lanes of the render at the end of a click, mouse-down or mouse-up
SyncLanes == {SyncLane, NoLane}
\* The lanes of the render of a later task
ConcurrentLanes == {InputContinuousLane, DefaultLane, NoLane}

\* setState(arg) is the update "set"; setZoom(z => ...) is the update named
\* after its function
Update(hook, lane, op, arg) ==
    [hook |-> hook, lane |-> lane, op |-> op, arg |-> arg]

\* The state an update gives from the state before it
reducer(state, update) ==
    CASE update.op = "set" -> update.arg
      [] update.op = "wheel" -> wheelZoom(state, update.arg)
      [] update.op = "zoomIn" -> zoomInUpdater(state)
      [] update.op = "zoomOut" -> zoomOutUpdater(state)

RECURSIVE updateReducer(_, _, _)
\* The hooks of a render of renderLanes: the updates are applied in their
\* order; an update of another lane is skipped and kept, and so is every
\* later update of its hook, to be applied again, from the state before the
\* first update skipped, when that lane is rendered
updateReducer(updates, renderLanes, work) ==
    IF updates = <<>> THEN work
    ELSE
        LET update == Head(updates)
            hook == update.hook
            newState == reducer(work.state[hook], update)
        IN  updateReducer(Tail(updates), renderLanes,
                IF update.lane \in renderLanes
                THEN IF hook \in work.skipped
                     THEN [work EXCEPT !.state[hook] = newState,
                                       !.rest = Append(@, [update EXCEPT !.lane = NoLane])]
                     ELSE [work EXCEPT !.state[hook] = newState,
                                       !.base[hook] = newState]
                ELSE [work EXCEPT !.skipped = @ \cup {hook},
                                  !.rest = Append(@, update)])

\* The updates of the effect for a container of the given size and the
\* bounds b: setZoom and setPan when containerRef.current is set
effectUpdates(ref, size, b) ==
    IF ref
    THEN
        LET fit == centerViewEffect(TRUE, size, b, N(1), Point(N(0), N(0)))
        IN  << Update("zoom", DefaultLane, "set", fit.zoom),
               Update("pan", DefaultLane, "set", fit.pan) >>
    ELSE <<>>

\* The component's functions that compute with numbers, by name
Component(c) ==
    CASE c[1] = "LayoutMemo" -> LayoutMemo(c[2], c[3])
      [] c[1] = "useMemo" ->
            IF c[2] \in AllTrees THEN MemoTable[c[2], c[3]]
            ELSE LayoutMemo(c[2], c[3])
      [] c[1] = "updateReducer" -> updateReducer(c[2], c[3], c[4])
      [] c[1] = "reducer" -> reducer(c[2], c[3])
      [] c[1] = "effectUpdates" -> effectUpdates(c[2], c[3], c[4])
      [] c[1] = "centerViewEffect" -> centerViewEffect(c[2], c[3], c[4], c[5], c[6])
      [] c[1] = "resetView" -> resetView(c[2], c[3], c[4], c[5], c[6])
      [] c[1] = "fitZoomDouble" -> fitZoomDouble(c[2], c[3])

\* useMemo(() => ..., [rootNode, layout])
useMemo(root, mode) == Call(<<"useMemo", root, mode>>)

\* The state, the base state and the updates left after a render
renderWithHooks(base, updates, renderLanes) ==
    Call(<<"updateReducer", updates, renderLanes,
           [state |-> base, base |-> base, skipped |-> {}, rest |-> <<>>]>>)

(***************************************************************************)
(* State.  The application is rendered by createRoot: an update dispatched *)
(* by a click, a mouse-down or a mouse-up is rendered before the event     *)
(* returns, an update dispatched by a wheel, mouse-move, mouse-enter or    *)
(* mouse-leave event, by the effect or by the parent is rendered by a      *)
(* later task.  The handlers read the state of the last commit.            *)
(***************************************************************************)
VARIABLES
    rootNode,       \* the rootNode prop, as of the last commit
    layout,         \* useState 'tree' | 'radial', as of the last commit
    positions,      \* useMemo: the positioned-node list
    bounds,         \* useMemo: the content bounds
    zoom,           \* useState, as of the last commit
    pan,            \* useState {x, y}, as of the last commit
    isDragging,     \* useState, as of the last commit
    dragStart,      \* useState {x, y}, as of the last commit
    hoveredNode,    \* useState string | null, as of the last commit
    baseState,      \* for each useState, the state the updates of queue apply to
    queue,          \* the updates dispatched and not rendered yet, oldest first
    effectPending,  \* the effect of the last commit is scheduled and has not run
    containerRef,   \* containerRef.current is set (the first commit is done)
    clientSize,     \* <<clientWidth, clientHeight>> of the container
    lastEvent,      \* history: the event handled, or the task React ran, last
    anchor,         \* history: pointer and pan at the last primary mouse-down
    steps,          \* history: events handled since the first commit
    zoomSteps,      \* history: wheel / zoom-button events since the last fit
    fitCall,        \* the fit computed on its own by the last step, or null
    documents,      \* MindMapPage useState, as of the last commit
    selectedDocument, \* MindMapPage useState, as of the last commit
    mindMaps,       \* MindMapPage useState, as of the last commit
    selectedMindMap,\* MindMapPage useState: the mind map shown, or none
    loading,        \* MindMapPage useState: the spinner replaces the renderer
    generating,     \* MindMapPage useState, as of the last commit
    pageBase,       \* for each useState of the page, the state pageQueue applies to
    pageQueue,      \* the updates of the page dispatched and not rendered yet
    pending,        \* the requests to the service awaiting their response
    sent,           \* history: requests sent since the page was shown
    requested,      \* history: the ids handleSelectMindMap was called with
    succeeded,      \* history: the handleSelectMindMap calls whose fetch succeeded
    overwritten     \* history: another handler set selectedMindMap after the
                    \* first handleSelectMindMap call

vars == <<rootNode, layout, positions, bounds, zoom, pan, isDragging, dragStart,
          hoveredNode, baseState, queue, effectPending, containerRef,
          clientSize, lastEvent, anchor, steps, zoomSteps, fitCall,
          documents, selectedDocument, mindMaps, selectedMindMap, loading,
          generating, pageBase, pageQueue, pending, sent, requested,
          succeeded, overwritten>>

\* The state of MindMapPage, the parent that renders the component
pageVars == <<documents, selectedDocument, mindMaps, selectedMindMap, loading,
              generating, pageBase, pageQueue, pending, sent, requested,
              succeeded, overwritten>>

\* No fit was computed on its own
NoCall == [fit |-> Null, size |-> Null, bounds |-> Null, view |-> Null,
           double |-> Null]

\* The useState values of the last commit
hookVars == <<layout, zoom, pan, isDragging, dragStart, hoveredNode>>

\* The useState values of the last commit, by hook
memoizedState ==
    [layout |-> layout, zoom |-> zoom, pan |-> pan, isDragging |-> isDragging,
     dragStart |-> dragStart, hoveredNode |-> hoveredNode]

\* The effect of the last commit runs before the next render, when it has
\* not run yet
flushPassiveEffects ==
    IF effectPending
    THEN Call(<<"effectUpdates", containerRef, clientSize, bounds>>)
    ELSE <<>>

\* An update leaves the state as it is, and no update is waiting: React
\* drops it and renders nothing.  setPan and setDragStart are given a new
\* object each time.
Bailout(update) ==
    /\ update.hook \notin {"pan", "dragStart"}
    /\ Call(<<"reducer", memoizedState[update.hook], update>>)
           = memoizedState[update.hook]

NoRender(updates) ==
    \/ updates = <<>>
    \/ /\ queue = <<>>
       /\ \A i \in 1..Len(updates) : Bailout(updates[i])

(***************************************************************************)
(* Initial state: the useState initial values and the first useMemo        *)
(***************************************************************************)
InitialState ==
    [layout |-> "tree", zoom |-> Rat(8, 10), pan |-> Point(N(0), N(0)),
     isDragging |-> FALSE, dragStart |-> Point(N(0), N(0)),
     hoveredNode |-> Null]

InitState ==
    /\ layout = InitialState.layout
    /\ zoom = InitialState.zoom
    /\ pan = InitialState.pan
    /\ isDragging = InitialState.isDragging
    /\ dragStart = InitialState.dragStart
    /\ hoveredNode = InitialState.hoveredNode
    /\ baseState = InitialState
    /\ queue = <<>>
    /\ effectPending = FALSE
    /\ containerRef = FALSE
    /\ lastEvent = Event("construct", 0, 0, 0, "")
    /\ anchor = [p |-> <<0, 0>>, pan |-> Point(N(0), N(0))]
    /\ steps = 0
    /\ zoomSteps = 0
    /\ fitCall = NoCall

\* selectedMindMap is the mind map in a sequence, and the empty sequence
\* when it is null
NoMindMap == <<>>

\* useState initial values of MindMapPage; an array is told from another by
\* the response it came with
InitialPageState ==
    [documents |-> <<>>, selectedDocument |-> "",
     mindMaps |-> [ref |-> 0, items |-> <<>>], selectedMindMap |-> NoMindMap,
     loading |-> FALSE, generating |-> FALSE]

\* The page as constructed.  The specifications of the component alone
\* leave its parent at that: they neither read nor change the page's state.
PageInit ==
    /\ documents = InitialPageState.documents
    /\ selectedDocument = InitialPageState.selectedDocument
    /\ mindMaps = InitialPageState.mindMaps
    /\ selectedMindMap = InitialPageState.selectedMindMap
    /\ loading = InitialPageState.loading
    /\ generating = InitialPageState.generating
    /\ pageBase = InitialPageState
    /\ pageQueue = <<>>
    /\ sent = 0
    /\ requested = <<>>
    /\ succeeded = {}
    /\ overwritten = FALSE

Init ==
    /\ rootNode \in Trees
    /\ positions = useMemo(rootNode, "tree").positions
    /\ bounds = useMemo(rootNode, "tree").bounds
    /\ clientSize \in ClientSizes
    /\ InitState
    /\ PageInit
    /\ pending = {}

(***************************************************************************)
(* Commits.  Each action leaves the history counters steps and zoomSteps   *)
(* to the next-state relation that bounds it.                              *)
(***************************************************************************)
\* The first commit: the container is attached and the effect is scheduled
Mount ==
    /\ ~containerRef
    /\ containerRef' = TRUE
    /\ effectPending' = TRUE
    /\ lastEvent' = Event("mount", 0, 0, 0, "")
    /\ UNCHANGED <<rootNode, positions, bounds, hookVars, baseState, queue,
                   clientSize, anchor>>

\* Mutant: the commit recomputes the layout and the effect does not run
RelayoutKeepsView(memo, renderLanes, rest) ==
    /\ positions' = memo.positions
    /\ bounds' = memo.bounds
    /\ queue' = rest
    /\ effectPending' = FALSE

\* A commit with a new layout mode or root: memo is what useMemo computed
\* for them, and the effect on [layout, bounds] is to run.  After a render
\* of the SyncLane it runs before the event returns, and its updates wait
\* in the queue; after another render it is scheduled.
Relayout(memo, renderLanes, rest) ==
    /\ positions' = memo.positions
    /\ bounds' = memo.bounds
    /\ IF SyncLane \in renderLanes
       THEN /\ queue' = rest \o Call(<<"effectUpdates", containerRef, clientSize, memo.bounds>>)
            /\ effectPending' = FALSE
       ELSE /\ queue' = rest
            /\ effectPending' = TRUE

\* The commit of the render work of renderLanes: the layout is recomputed
\* when the root was replaced or the mode changed
commitRoot(root, replaced, renderLanes, work, ev) ==
    /\ rootNode' = root
    /\ layout' = work.state.layout
    /\ zoom' = work.state.zoom
    /\ pan' = work.state.pan
    /\ isDragging' = work.state.isDragging
    /\ dragStart' = work.state.dragStart
    /\ hoveredNode' = work.state.hoveredNode
    /\ baseState' = work.base
    /\ IF replaced \/ work.state.layout # layout
       THEN Relayout(useMemo(root, work.state.layout), renderLanes, work.rest)
       ELSE /\ queue' = work.rest
            /\ effectPending' = FALSE
            /\ UNCHANGED <<positions, bounds>>
    /\ lastEvent' = ev
    /\ UNCHANGED <<containerRef, clientSize>>

\* A render of renderLanes and its commit: the effect of the commit before
\* runs first if it has not, and the updates of the lanes are applied
performWorkOnRoot(root, replaced, renderLanes, dispatched, ev) ==
    commitRoot(root, replaced, renderLanes,
               renderWithHooks(baseState,
                               queue \o dispatched \o flushPassiveEffects,
                               renderLanes),
               ev)

\* A click, a mouse-down or a mouse-up whose handler dispatched the updates:
\* they are rendered and committed before the event returns
dispatchDiscreteEvent(updates, ev) ==
    IF NoRender(updates)
    THEN /\ lastEvent' = ev
         /\ UNCHANGED <<rootNode, positions, bounds, hookVars, baseState,
                        queue, effectPending, containerRef, clientSize>>
    ELSE performWorkOnRoot(rootNode, FALSE, SyncLanes, updates, ev)

\* A wheel, mouse-move, mouse-enter or mouse-leave event whose handler
\* dispatched the updates: they wait for the render of a later task
dispatchContinuousEvent(updates, ev) ==
    /\ queue' = IF NoRender(updates) THEN queue ELSE queue \o updates
    /\ lastEvent' = ev
    /\ UNCHANGED <<rootNode, positions, bounds, hookVars, baseState,
                   effectPending, containerRef, clientSize>>

\* The task that runs the effect scheduled by the last commit
RunEffect ==
    /\ containerRef
    /\ effectPending
    /\ queue' = queue \o Call(<<"effectUpdates", containerRef, clientSize, bounds>>)
    /\ effectPending' = FALSE
    /\ lastEvent' = Event("effect", 0, 0, 0, "")
    /\ UNCHANGED <<rootNode, positions, bounds, hookVars, baseState,
                   containerRef, clientSize, anchor>>

\* The task that renders the updates waiting in the queue
Render ==
    /\ containerRef
    /\ queue # <<>>
    /\ performWorkOnRoot(rootNode, FALSE, ConcurrentLanes, <<>>,
                             Event("render", 0, 0, 0, ""))
    /\ UNCHANGED anchor

(***************************************************************************)
(* Events                                                                  *)
(***************************************************************************)
\* onClick={() => setLayout(mode)} of the Tree / Radial buttons
setLayout(mode) ==
    /\ containerRef
    /\ dispatchDiscreteEvent(
           << Update("layout", SyncLane, "set", mode) >>,
           Event("setLayout", 0, 0, 0,
                 IF mode = layout THEN "same" ELSE "changed"))
    /\ UNCHANGED anchor

\* The parent is rendered with another mind map and hands the component
\* another rootNode object: a render of a later task
ReplaceRoot(root) ==
    /\ containerRef
    /\ performWorkOnRoot(root, TRUE, ConcurrentLanes, <<>>,
                             Event("replaceRoot", 0, 0, 0, ""))
    /\ UNCHANGED anchor

\* The container is resized by the page; the component does not listen
Resize(size) ==
    /\ containerRef
    /\ size # clientSize
    /\ clientSize' = size
    /\ lastEvent' = Event("resize", 0, 0, 0, "")
    /\ UNCHANGED <<rootNode, positions, bounds, hookVars, baseState, queue,
                   effectPending, containerRef, anchor>>

\* Mutant: a wheel handler that scales pan with the zoom
handleWheelScalesPan(deltaY) ==
    /\ containerRef
    /\ dispatchContinuousEvent(
           << Update("zoom", InputContinuousLane, "wheel", deltaY),
              Update("pan", InputContinuousLane, "set",
                     Point(Mul(pan.x, Div(wheelZoom(zoom, deltaY), zoom)),
                           Mul(pan.y, Div(wheelZoom(zoom, deltaY), zoom)))) >>,
           Event("wheel", 0, 0, 0, ""))
    /\ UNCHANGED anchor

handleWheel(deltaY) ==
    /\ containerRef
    /\ dispatchContinuousEvent(
           << Update("zoom", InputContinuousLane, "wheel", deltaY) >>,
           Event("wheel", 0, 0, 0, ""))
    /\ UNCHANGED anchor

ZoomInClick ==
    /\ containerRef
    /\ dispatchDiscreteEvent(<< Update("zoom", SyncLane, "zoomIn", 0) >>,
                             Event("zoomIn", 0, 0, 0, ""))
    /\ UNCHANGED anchor

ZoomOutClick ==
    /\ containerRef
    /\ dispatchDiscreteEvent(<< Update("zoom", SyncLane, "zoomOut", 0) >>,
                             Event("zoomOut", 0, 0, 0, ""))
    /\ UNCHANGED anchor

\* Mutant: Fit to Screen also goes back to the default tree layout
ResetClickToTree ==
    /\ containerRef
    /\ LET fit == Call(<<"resetView", containerRef, clientSize,
                         useMemo(rootNode, "tree").bounds, zoom, pan>>)
       IN  dispatchDiscreteEvent(
               << Update("layout", SyncLane, "set", "tree"),
                  Update("zoom", SyncLane, "set", fit.zoom),
                  Update("pan", SyncLane, "set", fit.pan) >>,
               Event("reset", 0, 0, 0, ""))
    /\ UNCHANGED anchor

\* onClick={resetView} of the Fit to Screen button
ResetClick ==
    /\ containerRef
    /\ LET fit == Call(<<"resetView", containerRef, clientSize, bounds, zoom, pan>>)
       IN  dispatchDiscreteEvent(
               << Update("zoom", SyncLane, "set", fit.zoom),
                  Update("pan", SyncLane, "set", fit.pan) >>,
               Event("reset", 0, 0, 0, ""))
    /\ UNCHANGED anchor

\* Mutant: the drag anchor is the pointer position, pan not subtracted
handleMouseDownNoPan(button, clientX, clientY) ==
    /\ containerRef
    /\ dispatchDiscreteEvent(
           IF button = 0
           THEN << Update("isDragging", SyncLane, "set", TRUE),
                   Update("dragStart", SyncLane, "set",
                          Point(N(clientX), N(clientY))) >>
           ELSE <<>>,
           Event("mousedown", button, clientX, clientY, ""))
    /\ anchor' = IF button = 0
                 THEN [p |-> <<clientX, clientY>>, pan |-> pan]
                 ELSE anchor

handleMouseDown(button, clientX, clientY) ==
    /\ containerRef
    /\ dispatchDiscreteEvent(
           IF button = 0
           THEN << Update("isDragging", SyncLane, "set", TRUE),
                   Update("dragStart", SyncLane, "set",
                          Point(Sub(N(clientX), pan.x), Sub(N(clientY), pan.y))) >>
           ELSE <<>>,
           Event("mousedown", button, clientX, clientY, ""))
    /\ anchor' = IF button = 0
                 THEN [p |-> <<clientX, clientY>>, pan |-> pan]
                 ELSE anchor

handleMouseMove(clientX, clientY) ==
    /\ containerRef
    /\ dispatchContinuousEvent(
           IF isDragging
           THEN << Update("pan", InputContinuousLane, "set",
                          Point(Sub(N(clientX), dragStart.x),
                                Sub(N(clientY), dragStart.y))) >>
           ELSE <<>>,
           Event("mousemove", 0, clientX, clientY, ""))
    /\ UNCHANGED anchor

\* Mutant: the drag ends on mouse-up only, the pointer leaving is ignored
handleMouseUpOnly(type) ==
    /\ containerRef
    /\ IF type = "mouseup"
       THEN dispatchDiscreteEvent(
                << Update("isDragging", SyncLane, "set", FALSE) >>,
                Event(type, 0, 0, 0, ""))
       ELSE dispatchContinuousEvent(<<>>, Event(type, 0, 0, 0, ""))
    /\ UNCHANGED anchor

\* onMouseUp and onMouseLeave of the canvas are both handleMouseUp
handleMouseUp(type) ==
    /\ containerRef
    /\ IF type = "mouseup"
       THEN dispatchDiscreteEvent(
                << Update("isDragging", SyncLane, "set", FALSE) >>,
                Event(type, 0, 0, 0, ""))
       ELSE dispatchContinuousEvent(
                << Update("isDragging", InputContinuousLane, "set", FALSE) >>,
                Event(type, 0, 0, 0, ""))
    /\ UNCHANGED anchor

\* onMouseEnter={() => setHoveredNode(pos.node.id)} of a node group
NodeMouseEnter(i) ==
    /\ containerRef
    /\ dispatchContinuousEvent(
           << Update("hoveredNode", InputContinuousLane, "set", positions[i].node) >>,
           Event("nodeEnter", 0, 0, 0, positions[i].node))
    /\ UNCHANGED anchor

\* Mutant: leaving a node clears the hover only when that node is the hovered one
NodeMouseLeaveIfHovered(i) ==
    /\ containerRef
    /\ dispatchContinuousEvent(
           IF hoveredNode = positions[i].node
           THEN << Update("hoveredNode", InputContinuousLane, "set", Null) >>
           ELSE <<>>,
           Event("nodeLeave", 0, 0, 0, ""))
    /\ UNCHANGED anchor

\* onMouseLeave={() => setHoveredNode(null)} of a node group
NodeMouseLeave(i) ==
    /\ containerRef
    /\ dispatchContinuousEvent(
           << Update("hoveredNode", InputContinuousLane, "set", Null) >>,
           Event("nodeLeave", 0, 0, 0, ""))
    /\ UNCHANGED anchor

(***************************************************************************)
(* Every event of the component, MaxSteps of them after the first commit,  *)
(* and the tasks React runs between them                                   *)
(***************************************************************************)
Tick == /\ steps < MaxSteps
        /\ steps' = steps + 1
        /\ fitCall' = NoCall
        /\ UNCHANGED <<zoomSteps, pageVars>>

\* A task of React: it is no event
Task == fitCall' = NoCall /\ UNCHANGED <<steps, zoomSteps, pageVars>>

Next ==
    \/ Mount /\ Task
    \/ RunEffect /\ Task
    \/ Render /\ Task
    \/ Tick /\ \E mode \in Layouts : setLayout(mode)
    \/ Tick /\ \E root \in Trees : ReplaceRoot(root)
    \/ Tick /\ \E size \in ClientSizes : Resize(size)
    \/ Tick /\ \E deltaY \in DeltaYs : handleWheel(deltaY)
    \/ Tick /\ ZoomInClick
    \/ Tick /\ ZoomOutClick
    \/ Tick /\ ResetClick
    \/ Tick /\ \E button \in Buttons, p \in Pointers : handleMouseDown(button, p[1], p[2])
    \/ Tick /\ \E p \in Pointers : handleMouseMove(p[1], p[2])
    \/ Tick /\ \E type \in {"mouseup", "mouseleave"} : handleMouseUp(type)
    \/ Tick /\ \E i \in 1..Len(positions) : NodeMouseEnter(i)
    \/ Tick /\ \E i \in 1..Len(positions) : NodeMouseLeave(i)

Spec == Init /\ [][Next]_vars

(***************************************************************************)
(* The events that set zoom: fits, wheel, zoom buttons and reset, with     *)
(* MaxZoomDepth wheel and zoom-button events after each fit and MaxQueue   *)
(* updates waiting                                                         *)
(***************************************************************************)
ZoomTick == /\ zoomSteps < MaxZoomDepth
            /\ Len(queue) < MaxQueue
            /\ zoomSteps' = zoomSteps + 1
            /\ fitCall' = NoCall
            /\ UNCHANGED <<steps, pageVars>>

FitTick == /\ Len(queue) < MaxQueue
           /\ zoomSteps' = 0
           /\ fitCall' = NoCall
           /\ UNCHANGED <<steps, pageVars>>

NextZoom ==
    \/ Mount /\ Task
    \/ RunEffect /\ FitTick
    \/ Render /\ Task
    \/ FitTick /\ \E mode \in Layouts : setLayout(mode) /\ mode # layout
    \/ FitTick /\ ResetClick
    \/ ZoomTick /\ \E deltaY \in DeltaYs : handleWheel(deltaY)
    \/ ZoomTick /\ ZoomInClick
    \/ ZoomTick /\ ZoomOutClick

SpecZoom == Init /\ [][NextZoom]_vars

(***************************************************************************)
(* The fits: the component is rendered with a root of FitTrees in a        *)
(* container of FitSizes, the effect fits the layout after the first       *)
(* commit and after a change of the layout mode, Fit to Screen fits it     *)
(* again, and the zoom events change the zoom between the fits.  The fit   *)
(* is a computation on the container size and the content bounds alone:    *)
(* CallFit applies it to a size and to bounds that are given, which need   *)
(* not be those of a layout.                                               *)
(***************************************************************************)
FitTrees == {TreeThree, DeepChain}

FitSizes == {<<800, 600>>, <<300, 200>>}

\* The container size and the content bounds the fit is computed for on its
\* own: bounds of 1000x500 in a container of 800x600
CallSizes == {<<800, 600>>}
CallBounds == {MakeBounds(N(0), N(1000), N(0), N(500))}

\* The zoom in the code's arithmetic, computed once for each of them
FitZoomDoubles ==
    [size \in CallSizes, b \in CallBounds |-> Call(<<"fitZoomDouble", size, b>>)]

InitFit ==
    /\ rootNode \in FitTrees
    /\ positions = useMemo(rootNode, "tree").positions
    /\ bounds = useMemo(rootNode, "tree").bounds
    /\ clientSize \in FitSizes
    /\ InitState
    /\ PageInit
    /\ pending = {}

\* The computation of the effect (fit = "effect") or of resetView applied
\* to a container of the given size and to the bounds b; the component is
\* left as it is
CallFit(fit, size, b) ==
    /\ fitCall' =
          [fit |-> fit, size |-> size, bounds |-> b,
           view |-> Call(<<IF fit = "effect" THEN "centerViewEffect" ELSE "resetView",
                           TRUE, size, b, zoom, pan>>),
           double |-> FitZoomDoubles[size, b]]
    /\ UNCHANGED <<rootNode, positions, bounds, hookVars, baseState, queue,
                   effectPending, containerRef, clientSize, lastEvent, anchor,
                   steps, zoomSteps, pageVars>>

NextFit ==
    \/ Mount /\ Task
    \/ RunEffect /\ FitTick
    \/ Render /\ Task
    \/ FitTick /\ \E mode \in Layouts : setLayout(mode) /\ mode # layout
    \/ FitTick /\ ResetClick
    \/ ZoomTick /\ \E deltaY \in DeltaYs : handleWheel(deltaY)
    \/ ZoomTick /\ ZoomInClick
    \/ ZoomTick /\ ZoomOutClick
    \/ \E fit \in {"effect", "reset"}, size \in CallSizes, b \in CallBounds :
          CallFit(fit, size, b)

SpecFit == InitFit /\ [][NextFit]_vars

(***************************************************************************)
(* The layout as a function of the root and the mode: the component is     *)
(* rendered with a root drawn from LayoutTrees, the page replaces the root *)
(* and the user switches the layout mode.                                  *)
(***************************************************************************)
LayoutSizes == {<<1280, 650>>, <<800, 600>>}

InitLayout ==
    /\ rootNode \in LayoutTrees \cup {TreeThree}
    /\ positions = useMemo(rootNode, "tree").positions
    /\ bounds = useMemo(rootNode, "tree").bounds
    /\ clientSize \in LayoutSizes
    /\ InitState
    /\ PageInit
    /\ pending = {}

NextLayout ==
    \/ Mount /\ Task
    \/ RunEffect /\ FitTick
    \/ Render /\ Task
    \/ FitTick /\ \E mode \in Layouts : setLayout(mode) /\ mode # layout
    \/ Tick /\ \E root \in ReplacementTrees : ReplaceRoot(root)

SpecLayout == InitLayout /\ [][NextLayout]_vars

(***************************************************************************)
(* MindMapPage: the page that lists the documents and the mind maps of the *)
(* selected document, fetches, generates and deletes mind maps, and        *)
(* renders the component with the root_node of the selected mind map, or a *)
(* spinner while loading.  Its useState hooks are updated as the           *)
(* component's are: the update of a click or a change event is rendered    *)
(* before the event returns, the updates dispatched after an await or by   *)
(* an effect are rendered by a later task.  maxDepth is left out: it is    *)
(* only sent with the generate request.                                    *)
(***************************************************************************)
\* Requests sent by the handlers of a run
MaxRequests == 3

\* ids of the mind maps of the service
MindMapIds == {"m1", "m2", "m3"}

\* root_node of the mind map of an id
TreeOf(mindmapId) ==
    CASE mindmapId = "m1" -> TreeOne
      [] mindmapId = "m2" -> TreeThree
      [] OTHER -> DeepChain

\* A MindMap object of a response; ref tells the objects of the response of
\* request ref from those of another response
MindMap(mindmapId, ref) ==
    [id |-> mindmapId, root_node |-> TreeOf(mindmapId), ref |-> ref]

\* getMindMap(mindmapId): the MindMap the service answers request ref with
getMindMap(mindmapId, ref) == MindMap(mindmapId, ref)

\* generateMindMap: the service answers with a new mind map
generateMindMap(ref) == MindMap("m3", ref)

\* getDocumentMindMaps: the array the service answers request ref with
getDocumentMindMaps(ids, ref) ==
    [ref |-> ref, items |-> [i \in 1..Len(ids) |-> MindMap(ids[i], ref)]]

\* The lists of mind maps the service may answer with
ListResponses == {<<>>, <<"m1", "m2">>, <<"m3", "m1", "m2">>}

\* listDocuments: the documents of the service
listDocuments ==
    << [id |-> "d1", status |-> "completed"],
       [id |-> "d2", status |-> "processing"] >>

\* docs.filter(d => d.status === 'completed')
completed(docs) == SelectSeq(docs, LAMBDA d : d.status = "completed")

\* A request awaiting its response, with what the handler that sent it
\* holds in its closure: the mind map id of getMindMap and deleteMindMap,
\* the document id, the id of the selectedMindMap of the render whose
\* handleDelete was called, the response of generateMindMap that
\* handleGenerate sets after loadMindMaps, and the number of the
\* handleSelectMindMap call
Request(n, kind, id, doc, selected, response, call) ==
    [n |-> n, kind |-> kind, id |-> id, doc |-> doc, selected |-> selected,
     response |-> response, call |-> call]

\* The useState values of the page's last commit, by hook
pageMemoizedState ==
    [documents |-> documents, selectedDocument |-> selectedDocument,
     mindMaps |-> mindMaps, selectedMindMap |-> selectedMindMap,
     loading |-> loading, generating |-> generating]

pageHooks == <<documents, selectedDocument, mindMaps, selectedMindMap, loading,
               generating>>

\* The updates leave the page's state as it is and no update is waiting
PageNoRender(updates) ==
    \/ updates = <<>>
    \/ /\ pageQueue = <<>>
       /\ \A i \in 1..Len(updates) :
              updates[i].arg = pageMemoizedState[updates[i].hook]

\* {selectedMindMap && (loading ? <spinner/> : <MindMapRenderer ... />)}
Shown(mindmap, isLoading) == mindmap # NoMindMap /\ ~isLoading

\* The ids of the select and delete buttons of the last commit
ListedIds == {mindMaps.items[i].id : i \in 1..Len(mindMaps.items)}

\* The spinner or nothing takes the component's place and React discards
\* the component's state, its updates and its effect; the next component
\* starts from the useState initial values
RendererUnmounts ==
    /\ containerRef' = FALSE
    /\ rootNode' = Null
    /\ positions' = <<>>
    /\ bounds' = Null
    /\ layout' = InitialState.layout
    /\ zoom' = InitialState.zoom
    /\ pan' = InitialState.pan
    /\ isDragging' = InitialState.isDragging
    /\ dragStart' = InitialState.dragStart
    /\ hoveredNode' = InitialState.hoveredNode
    /\ baseState' = InitialState
    /\ queue' = <<>>
    /\ effectPending' = FALSE
    /\ lastEvent' = Event("unmount", 0, 0, 0, "")
    /\ anchor' = [p |-> <<0, 0>>, pan |-> Point(N(0), N(0))]
    /\ UNCHANGED clientSize

\* The commit that constructs a component with the root: it is laid out as
\* a tree, the container is attached and the effect is scheduled
RendererMounts(root) ==
    LET memo == useMemo(root, "tree")
    IN  /\ rootNode' = root
        /\ positions' = memo.positions
        /\ bounds' = memo.bounds
        /\ containerRef' = TRUE
        /\ effectPending' = TRUE
        /\ lastEvent' = Event("mount", 0, 0, 0, "")
        /\ UNCHANGED <<hookVars, baseState, queue, clientSize, anchor>>

\* The component's own variables
rendererVars == <<rootNode, layout, positions, bounds, zoom, pan, isDragging,
                  dragStart, hoveredNode, baseState, queue, effectPending,
                  containerRef, clientSize, lastEvent, anchor>>

\* The page's part of a commit; after: the updates its effects dispatch
commitPage(work, after) ==
    /\ documents' = work.state.documents
    /\ selectedDocument' = work.state.selectedDocument
    /\ mindMaps' = work.state.mindMaps
    /\ selectedMindMap' = work.state.selectedMindMap
    /\ loading' = work.state.loading
    /\ generating' = work.state.generating
    /\ pageBase' = work.base
    /\ pageQueue' = work.rest \o after

\* The component's part of a commit of the page: it is unmounted, mounted,
\* or rendered in the same lanes, with the root_node of another object when
\* selectedMindMap was set
commitRenderer(work, renderLanes, ev) ==
    LET was == Shown(selectedMindMap, loading)
        is == Shown(work.state.selectedMindMap, work.state.loading)
        replaced == work.state.selectedMindMap # selectedMindMap
    IN  CASE was /\ is ->
                 /\ performWorkOnRoot(work.state.selectedMindMap[1].root_node,
                        replaced, renderLanes, <<>>,
                        IF replaced THEN Event("replaceRoot", 0, 0, 0, "") ELSE ev)
                 /\ UNCHANGED anchor
          [] was /\ ~is -> RendererUnmounts
          [] ~was /\ is -> RendererMounts(work.state.selectedMindMap[1].root_node)
          [] OTHER -> UNCHANGED rendererVars

\* A click or change event of the page whose handler dispatched the
\* updates: they are rendered and committed before the event returns
dispatchPageEvent(updates, ev) ==
    IF PageNoRender(updates)
    THEN UNCHANGED <<pageHooks, pageBase, pageQueue, rendererVars>>
    ELSE LET work == renderWithHooks(pageBase, pageQueue \o updates, SyncLanes)
         IN  commitPage(work, <<>>) /\ commitRenderer(work, SyncLanes, ev)

\* The code after an await dispatched the updates: they wait for the
\* render of a later task
dispatchAfterAwait(updates) ==
    /\ pageQueue' = IF PageNoRender(updates) THEN pageQueue
                    ELSE pageQueue \o updates
    /\ UNCHANGED <<pageHooks, pageBase, rendererVars>>

\* The task that renders the updates waiting for the page and the component
RenderRoot ==
    /\ pageQueue # <<>> \/ (containerRef /\ queue # <<>>)
    /\ LET work == renderWithHooks(pageBase, pageQueue, ConcurrentLanes)
       IN  /\ commitPage(work, <<>>)
           /\ commitRenderer(work, ConcurrentLanes, Event("render", 0, 0, 0, ""))
    /\ UNCHANGED <<pending, sent, requested, succeeded, overwritten>>

\* loadMindMaps(documentId) up to its await: setLoading(true)
loadMindMaps(documentId) ==
    IF documentId = "" THEN <<>>
    ELSE << Update("loading", DefaultLane, "set", TRUE) >>

\* loadMindMaps(documentId) up to its await: the request, sent as request n
loadMindMapsRequest(documentId, n, response) ==
    IF documentId = "" THEN {}
    ELSE {Request(n, "getDocumentMindMaps", "", documentId, "", response, 0)}

\* Another handler than handleSelectMindMap sets selectedMindMap
Overwrites == overwritten \/ requested # <<>>

\* loadDocuments after its await: setDocuments(docs.filter(...))
listDocumentsResolves(req) ==
    /\ req \in pending
    /\ req.kind = "listDocuments"
    /\ pending' = pending \ {req}
    /\ dispatchAfterAwait(
           << Update("documents", DefaultLane, "set", completed(listDocuments)) >>)
    /\ UNCHANGED <<sent, requested, succeeded, overwritten>>

\* loadDocuments after its await, the fetch failed: the catch logs
listDocumentsRejects(req) ==
    /\ req \in pending
    /\ req.kind = "listDocuments"
    /\ pending' = pending \ {req}
    /\ UNCHANGED <<pageHooks, pageBase, pageQueue, rendererVars, sent,
                   requested, succeeded, overwritten>>

\* onChange={(e) => setSelectedDocument(e.target.value)} of the select, and
\* the effect on [selectedDocument] of the commit, which runs before the
\* event returns: loadMindMaps(selectedDocument) unless it is ''
setSelectedDocument(value) ==
    /\ value # selectedDocument
    /\ value = "" \/ \E i \in 1..Len(documents) : documents[i].id = value
    /\ value # "" => sent < MaxRequests
    /\ LET work == renderWithHooks(pageBase,
                       Append(pageQueue,
                              Update("selectedDocument", SyncLane, "set", value)),
                       SyncLanes)
           idle == work.rest = <<>> /\ work.state.loading
       IN  /\ commitPage(work, IF idle THEN <<>> ELSE loadMindMaps(value))
           /\ commitRenderer(work, SyncLanes, Event("render", 0, 0, 0, ""))
    /\ pending' = pending \cup loadMindMapsRequest(value, sent + 1, NoMindMap)
    /\ sent' = IF value = "" THEN sent ELSE sent + 1
    /\ UNCHANGED <<requested, succeeded, overwritten>>

\* loadMindMaps after its await: setMindMaps(maps), setSelectedMindMap of
\* maps[0] or null, finally setLoading(false); handleGenerate after its
\* second await: setSelectedMindMap(response), finally setGenerating(false)
getDocumentMindMapsResolves(req, ids) ==
    /\ req \in pending
    /\ req.kind = "getDocumentMindMaps"
    /\ pending' = pending \ {req}
    /\ LET maps == getDocumentMindMaps(ids, req.n)
       IN  dispatchAfterAwait(
               << Update("mindMaps", DefaultLane, "set", maps),
                  Update("selectedMindMap", DefaultLane, "set",
                         IF Len(maps.items) > 0 THEN <<maps.items[1]>>
                         ELSE NoMindMap),
                  Update("loading", DefaultLane, "set", FALSE) >>
               \o IF req.response = NoMindMap THEN <<>>
                  ELSE << Update("selectedMindMap", DefaultLane, "set", req.response),
                          Update("generating", DefaultLane, "set", FALSE) >>)
    /\ overwritten' = Overwrites
    /\ UNCHANGED <<sent, requested, succeeded>>

\* loadMindMaps after its await, the fetch failed: the catch logs, finally
\* setLoading(false); handleGenerate goes on as after a success
getDocumentMindMapsRejects(req) ==
    /\ req \in pending
    /\ req.kind = "getDocumentMindMaps"
    /\ pending' = pending \ {req}
    /\ dispatchAfterAwait(
           << Update("loading", DefaultLane, "set", FALSE) >>
           \o IF req.response = NoMindMap THEN <<>>
              ELSE << Update("selectedMindMap", DefaultLane, "set", req.response),
                      Update("generating", DefaultLane, "set", FALSE) >>)
    /\ overwritten' = IF req.response = NoMindMap THEN overwritten ELSE Overwrites
    /\ UNCHANGED <<sent, requested, succeeded>>

\* handleGenerate up to its first await: setGenerating(true) and the request
\* is sent.  The button is disabled when no document is selected or
\* generating is true.
handleGenerate ==
    /\ selectedDocument # ""
    /\ ~generating
    /\ sent < MaxRequests
    /\ dispatchPageEvent(<< Update("generating", SyncLane, "set", TRUE) >>,
                         Event("render", 0, 0, 0, ""))
    /\ pending' = pending \cup
           {Request(sent + 1, "generateMindMap", "", selectedDocument, "",
                    NoMindMap, 0)}
    /\ sent' = sent + 1
    /\ UNCHANGED <<requested, succeeded, overwritten>>

\* handleGenerate after its first await: loadMindMaps(selectedDocument)
\* with the selectedDocument of the render whose handler was called
generateMindMapResolves(req) ==
    /\ req \in pending
    /\ req.kind = "generateMindMap"
    /\ pending' = (pending \ {req}) \cup
           loadMindMapsRequest(req.doc, sent + 1, <<generateMindMap(req.n)>>)
    /\ sent' = sent + 1
    /\ dispatchAfterAwait(loadMindMaps(req.doc))
    /\ UNCHANGED <<requested, succeeded, overwritten>>

\* handleGenerate after its first await, the fetch failed: the catch logs,
\* finally setGenerating(false)
generateMindMapRejects(req) ==
    /\ req \in pending
    /\ req.kind = "generateMindMap"
    /\ pending' = pending \ {req}
    /\ dispatchAfterAwait(<< Update("generating", DefaultLane, "set", FALSE) >>)
    /\ UNCHANGED <<sent, requested, succeeded, overwritten>>

\* handleDelete up to its await, the user confirmed: the request is sent
handleDelete(mindmapId) ==
    /\ mindmapId \in ListedIds
    /\ sent < MaxRequests
    /\ pending' = pending \cup
           {Request(sent + 1, "deleteMindMap", mindmapId, selectedDocument,
                    IF selectedMindMap = NoMindMap THEN ""
                    ELSE selectedMindMap[1].id,
                    NoMindMap, 0)}
    /\ sent' = sent + 1
    /\ UNCHANGED <<pageHooks, pageBase, pageQueue, rendererVars, requested,
                   succeeded, overwritten>>

\* handleDelete after its await: setSelectedMindMap(null) when the deleted
\* mind map was the selectedMindMap of the render whose handler was called,
\* then loadMindMaps(selectedDocument) with the selectedDocument of that
\* render
deleteMindMapResolves(req) ==
    /\ req \in pending
    /\ req.kind = "deleteMindMap"
    /\ pending' = (pending \ {req}) \cup
           loadMindMapsRequest(req.doc, sent + 1, NoMindMap)
    /\ sent' = IF req.doc = "" THEN sent ELSE sent + 1
    /\ dispatchAfterAwait(
           (IF req.selected = req.id
            THEN << Update("selectedMindMap", DefaultLane, "set", NoMindMap) >>
            ELSE <<>>)
           \o loadMindMaps(req.doc))
    /\ overwritten' = IF req.selected = req.id THEN Overwrites ELSE overwritten
    /\ UNCHANGED <<requested, succeeded>>

\* handleDelete after its await, the fetch failed: the catch logs
deleteMindMapRejects(req) ==
    /\ req \in pending
    /\ req.kind = "deleteMindMap"
    /\ pending' = pending \ {req}
    /\ UNCHANGED <<pageHooks, pageBase, pageQueue, rendererVars, sent,
                   requested, succeeded, overwritten>>

\* handleSelectMindMap up to its await: setLoading(true) and the request is
\* sent
handleSelectMindMap(mindmapId) ==
    /\ mindmapId \in ListedIds
    /\ sent < MaxRequests
    /\ dispatchPageEvent(<< Update("loading", SyncLane, "set", TRUE) >>,
                         Event("render", 0, 0, 0, ""))
    /\ pending' = pending \cup
           {Request(sent + 1, "getMindMap", mindmapId, "", "", NoMindMap,
                    Len(requested) + 1)}
    /\ sent' = sent + 1
    /\ requested' = Append(requested, mindmapId)
    /\ UNCHANGED <<succeeded, overwritten>>

\* handleSelectMindMap after its await, the fetch succeeded:
\* setSelectedMindMap(mindmap), finally setLoading(false)
getMindMapResolves(req) ==
    /\ req \in pending
    /\ req.kind = "getMindMap"
    /\ pending' = pending \ {req}
    /\ succeeded' = succeeded \cup {req.call}
    /\ dispatchAfterAwait(
           << Update("selectedMindMap", DefaultLane, "set",
                     <<getMindMap(req.id, req.n)>>),
              Update("loading", DefaultLane, "set", FALSE) >>)
    /\ UNCHANGED <<sent, requested, overwritten>>

\* handleSelectMindMap after its await, the fetch failed: the catch logs,
\* finally setLoading(false)
getMindMapRejects(req) ==
    /\ req \in pending
    /\ req.kind = "getMindMap"
    /\ pending' = pending \ {req}
    /\ dispatchAfterAwait(<< Update("loading", DefaultLane, "set", FALSE) >>)
    /\ UNCHANGED <<sent, requested, succeeded, overwritten>>

\* The page after its first commit and its effects: loadDocuments was
\* called, no document is selected and there is no component
InitPage ==
    /\ PageInit
    /\ pending = {Request(0, "listDocuments", "", "", "", NoMindMap, 0)}
    /\ rootNode = Null
    /\ positions = <<>>
    /\ bounds = Null
    /\ clientSize \in {<<800, 600>>}
    /\ InitState

\* A step of the page: it is no event of the component
PageStep == UNCHANGED <<steps, zoomSteps, fitCall>>

NextPage ==
    \/ RunEffect /\ Task
    \/ RenderRoot /\ PageStep
    \/ (\E req \in pending : listDocumentsResolves(req)) /\ PageStep
    \/ (\E req \in pending : listDocumentsRejects(req)) /\ PageStep
    \/ (\E value \in {"", "d1"} : setSelectedDocument(value)) /\ PageStep
    \/ (\E req \in pending, ids \in ListResponses :
            getDocumentMindMapsResolves(req, ids)) /\ PageStep
    \/ (\E req \in pending : getDocumentMindMapsRejects(req)) /\ PageStep
    \/ handleGenerate /\ PageStep
    \/ (\E req \in pending : generateMindMapResolves(req)) /\ PageStep
    \/ (\E req \in pending : generateMindMapRejects(req)) /\ PageStep
    \/ (\E mindmapId \in MindMapIds : handleDelete(mindmapId)) /\ PageStep
    \/ (\E req \in pending : deleteMindMapResolves(req)) /\ PageStep
    \/ (\E req \in pending : deleteMindMapRejects(req)) /\ PageStep
    \/ (\E mindmapId \in MindMapIds : handleSelectMindMap(mindmapId)) /\ PageStep
    \/ (\E req \in pending : getMindMapResolves(req)) /\ PageStep
    \/ (\E req \in pending : getMindMapRejects(req)) /\ PageStep

SpecPage == InitPage /\ [][NextPage]_vars

(***************************************************************************)
(* Properties                                                              *)
(***************************************************************************)
OneFifth == Rat(2, 10)
TwoFifths == Rat(4, 10)

\* Every lane
AllLanes == {SyncLane, InputContinuousLane, DefaultLane, NoLane}

\* The useState values once the updates dispatched so far are rendered
Dispatched == renderWithHooks(baseState, queue, AllLanes).state

\* The useState values once the effect, if it is scheduled, has run and
\* every update is rendered: the state the component comes to when no
\* further event arrives
Settled ==
    renderWithHooks(baseState, queue \o flushPassiveEffects, AllLanes).state

\* The same of the state a step leads to
DispatchedNext == renderWithHooks(baseState', queue', AllLanes).state
SettledNext ==
    renderWithHooks(baseState',
                    queue' \o (IF effectPending'
                               THEN effectUpdates(containerRef', clientSize', bounds')
                               ELSE <<>>),
                    AllLanes).state

\* The step taken last triggered the automatic fit (first commit, root
\* replaced, layout mode changed) or ran its effect
AutoFitted ==
    \/ lastEvent.type \in {"mount", "replaceRoot", "effect"}
    \/ lastEvent.type = "setLayout" /\ lastEvent.arg = "changed"
\* The step taken last applied a fit: the automatic one or resetView
Fitted == AutoFitted \/ lastEvent.type = "reset"

\* The pointer, wheel, button and hover events
InteractionTypes ==
    {"mousedown", "mousemove", "mouseup", "mouseleave", "wheel", "zoomIn",
     "zoomOut", "reset", "nodeEnter", "nodeLeave"}

PositiveContainer == clientSize[1] > 0 /\ clientSize[2] > 0

(***************************************************************************)
(* The input tree, for the properties of the layout                        *)
(***************************************************************************)
RECURSIVE Preorder(_, _)
RECURSIVE PreorderAll(_, _, _)

\* The nodes of a tree in depth-first child order, each with its depth
Preorder(node, depth) ==
    <<[id |-> node.id, depth |-> depth, sub |-> node]>>
    \o PreorderAll(node.children, 1, depth + 1)

PreorderAll(children, index, depth) ==
    IF index > Len(children) THEN <<>>
    ELSE Preorder(children[index], depth) \o PreorderAll(children, index + 1, depth)

IsLeaf(e) == Len(e.sub.children) = 0
LeafCount(node) == Len(SelectSeq(Preorder(node, 0), IsLeaf))
SubtreeIds(node) ==
    LET sub == Preorder(node, 0) IN {sub[k].id : k \in 1..Len(sub)}

\* The positioned node of the tree node `id`
PosOf(id) == positions[CHOOSE i \in 1..Len(positions) : positions[i].node = id]

TreeLaidOut == containerRef /\ layout = "tree"
RadialLaidOut == containerRef /\ layout = "radial"

\* The parent of a node in the input tree, Null for the root
TreeParent(info, id) ==
    IF \E k \in 1..Len(info) :
           \E c \in 1..Len(info[k].sub.children) : info[k].sub.children[c].id = id
    THEN info[CHOOSE k \in 1..Len(info) :
                  \E c \in 1..Len(info[k].sub.children) :
                      info[k].sub.children[c].id = id].id
    ELSE Null

(***************************************************************************)
(* The sectors of the radial layout as the specification states them       *)
(***************************************************************************)
RECURSIVE SectorsOf(_, _, _)
RECURSIVE SectorsOfAll(_, _, _, _)

\* The sector [s, e) of every node in depth-first child order, the i-th of n
\* children (i = 0..n-1) of a node with sector [s, e) getting
\* [s + i*(e-s)/n, s + (i+1)*(e-s)/n); in units of pi
SectorsOf(node, s, e) ==
    <<[id |-> node.id, s |-> s, e |-> e, sub |-> node]>>
    \o SectorsOfAll(node.children, 1, s, e)

SectorsOfAll(children, index, s, e) ==
    IF index > Len(children) THEN <<>>
    ELSE
        LET step == Div(Sub(e, s), N(Len(children)))
        IN  SectorsOf(children[index], Add(s, Mul(N(index - 1), step)),
                      Add(s, Mul(N(index), step)))
            \o SectorsOfAll(children, index + 1, s, e)

\* C1: in every reachable state, from the initial zoom 0.8 through any
\* sequence of wheel events, zoom-button clicks, automatic fits and resets,
\* 0.2 <= zoom <= 2: for the zoom rendered and for the zoom of the updates
\* that wait to be rendered.
C1_ZoomInRange ==
    /\ Le(OneFifth, zoom) /\ Le(zoom, N(2))
    /\ Le(OneFifth, Dispatched.zoom) /\ Le(Dispatched.zoom, N(2))
    /\ Le(OneFifth, Settled.zoom) /\ Le(Settled.zoom, N(2))

\* C1 witness: zoom-button clicks and a wheel event after a fit brought the
\* rendered zoom to the upper end of the range
C1_Witness ==
    /\ lastEvent.type = "render"
    /\ zoom = N(2)
    /\ zoomSteps = MaxZoomDepth

\* C2: the drag state has exactly these transitions: a primary mouse-down
\* sets isDragging from any state and records the anchor pointer - pan; a
\* mouse-down with another button leaves isDragging and the anchor as they
\* are; mouse-up and mouse-leave both clear isDragging and change nothing
\* else, the one rendered with the event and the other by the next render;
\* no other event changes isDragging.
C2_DragTransitions ==
    [][/\ (lastEvent'.type = "mousedown" /\ lastEvent'.button = 0) =>
            /\ isDragging'
            /\ dragStart' = Point(Sub(N(lastEvent'.x), pan.x),
                                  Sub(N(lastEvent'.y), pan.y))
            /\ SettledNext.isDragging
            /\ SettledNext.dragStart = dragStart'
       /\ (lastEvent'.type = "mousedown" /\ lastEvent'.button # 0) =>
            /\ UNCHANGED <<isDragging, dragStart>>
            /\ SettledNext = Settled
       /\ lastEvent'.type \in {"mouseup", "mouseleave"} =>
            /\ SettledNext = [Settled EXCEPT !.isDragging = FALSE]
            /\ lastEvent'.type = "mouseup" => ~isDragging'
            /\ UNCHANGED <<rootNode, layout, positions, bounds, zoom, pan,
                           dragStart, hoveredNode, containerRef, clientSize>>
       /\ lastEvent'.type \notin {"mousedown", "mouseup", "mouseleave"} =>
            /\ SettledNext.isDragging = Settled.isDragging
            /\ lastEvent'.type \notin {"render", "replaceRoot"} =>
                  UNCHANGED isDragging
      ]_vars

\* C2 witness: a drag was begun, the pointer leaving the canvas ended it
\* and the end is rendered
C2_Witness ==
    /\ lastEvent.type = "mouseleave"
    /\ isDragging
    /\ ~Settled.isDragging
    /\ anchor.p \in Pointers

\* C3: for a drag begun by a primary mouse-down at P0 when pan was pan0,
\* every later mouse-move to P while isDragging sets pan = pan0 + (P - P0);
\* a mouse-move while not dragging leaves pan as it is.  The pan a
\* mouse-move sets is rendered by the next render.
C3_DragTracksPointer ==
    [][lastEvent'.type = "mousemove" =>
         IF isDragging
         THEN DispatchedNext.pan =
                  Point(Add(anchor.pan.x, N(lastEvent'.x - anchor.p[1])),
                        Add(anchor.pan.y, N(lastEvent'.y - anchor.p[2])))
         ELSE UNCHANGED <<pan, queue>>
      ]_vars

\* C3 witness: a dragging mouse-move to another point than the drag began
\* at, which began after the fit had moved pan
C3_Witness ==
    /\ lastEvent.type = "mousemove"
    /\ isDragging
    /\ <<lastEvent.x, lastEvent.y>> # anchor.p
    /\ anchor.pan # Point(N(0), N(0))
    /\ Dispatched.pan # anchor.pan

\* C4: a wheel event, idle or dragging, changes zoom alone: isDragging, the
\* drag anchor, pan, hoveredNode, the layout mode and the layout are left
\* unchanged, in the state rendered and in the state the updates lead to.
C4_WheelChangesZoomOnly ==
    [][lastEvent'.type = "wheel" =>
         /\ UNCHANGED <<isDragging, dragStart, pan, hoveredNode, layout,
                        rootNode, positions, bounds>>
         /\ DispatchedNext = [Dispatched EXCEPT !.zoom = DispatchedNext.zoom]
         /\ SettledNext = [Settled EXCEPT !.zoom = SettledNext.zoom]
      ]_vars

\* C4 witness: a wheel event during a drag that has moved pan, the zoom it
\* sets waiting to be rendered
C4_Witness ==
    /\ lastEvent.type = "wheel"
    /\ isDragging
    /\ pan # anchor.pan
    /\ Dispatched.zoom # zoom

\* C5: no interaction event changes the positioned-node list or the content
\* bounds; they change only when the layout mode or the root changes.
C5_InteractionKeepsLayout ==
    [][/\ lastEvent'.type \in InteractionTypes => UNCHANGED <<positions, bounds>>
       /\ (positions' # positions \/ bounds' # bounds) =>
            (layout' # layout \/ rootNode' # rootNode)
      ]_vars

\* C5 witness: a dragging mouse-move over the radial layout
C5_Witness ==
    /\ lastEvent.type = "mousemove"
    /\ isDragging
    /\ layout = "radial"
    /\ queue # <<>>
    /\ positions = useMemo(rootNode, "radial").positions

RECURSIVE TreeYAsSpecified(_, _)
\* The y of a node in tree layout as the specification states it: a leaf
\* with k leaves before it in depth-first child order has 50 + 80k, another
\* node is midway between its first and its last child
TreeYAsSpecified(node, leavesBefore) ==
    IF Len(node.children) = 0 THEN N(50 + 80 * leavesBefore)
    ELSE
        LET first == node.children[1]
            last == node.children[Len(node.children)]
        IN  Div(Add(TreeYAsSpecified(first, leavesBefore),
                    TreeYAsSpecified(last, leavesBefore + LeafCount(node)
                                               - LeafCount(last))),
                N(2))

\* The positioned nodes of a root and a mode as the specification states
\* them, from the tree alone: one per node in depth-first child order
PositionsAsSpecified(root, mode) ==
    LET info == Preorder(root, 0)
        sec == SectorsOf(root, N(0), N(2))
    IN  [k \in 1..Len(info) |->
            LET L == info[k].depth
                leavesBefore == Len(SelectSeq(SubSeq(info, 1, k - 1), IsLeaf))
                r == IF L = 0 THEN 0 ELSE 180 + (L - 1) * 160
                angle == IF k = 1 THEN N(0)
                         ELSE Div(Add(sec[k].s, sec[k].e), N(2))
            IN  IF mode = "tree"
                THEN [node |-> info[k].id,
                      x |-> N(80 + 240 * L),
                      y |-> TreeYAsSpecified(info[k].sub, leavesBefore),
                      level |-> L,
                      parent |-> TreeParent(info, info[k].id),
                      angle |-> NoAngle]
                ELSE [node |-> info[k].id,
                      x |-> Add(N(600), Mul(N(r), cos(angle))),
                      y |-> Add(N(400), Mul(N(r), sin(angle))),
                      level |-> L,
                      parent |-> TreeParent(info, info[k].id),
                      angle |-> angle]]

\* The content bounds of positioned nodes: their bounding box with the
\* padding of the mode (tree: 20 left, 180 right, 30 above, 60 below;
\* radial: 100 left and right, 50 above and below)
BoundsAsSpecified(pos, mode) ==
    LET pad == IF mode = "tree"
               THEN [left |-> 20, right |-> 180, top |-> 30, bottom |-> 60]
               ELSE [left |-> 100, right |-> 100, top |-> 50, bottom |-> 50]
        minX == Sub(MinOf(Xs(pos)), N(pad.left))
        maxX == Add(MaxOf(Xs(pos)), N(pad.right))
        minY == Sub(MinOf(Ys(pos)), N(pad.top))
        maxY == Add(MaxOf(Ys(pos)), N(pad.bottom))
    IN  [minX |-> minX, maxX |-> maxX, minY |-> minY, maxY |-> maxY,
         width |-> Sub(maxX, minX), height |-> Sub(maxY, minY)]

\* C6: the commit of a layout-mode change or of a root replacement holds the
\* positions and bounds the specification gives for the new root and mode,
\* whatever they were before, and runs or schedules the effect: once the
\* effect has run and its updates are rendered, (zoom, pan) are the fit
\* that Fit to Screen computes for the new bounds and the container size,
\* whatever zoom and pan were.  The render that leaves no update waiting
\* brings the component to that state.
C6_RelayoutRefits ==
    [][/\ (lastEvent'.type = "replaceRoot"
             \/ (lastEvent'.type = "setLayout" /\ lastEvent'.arg = "changed")) =>
            /\ positions' = PositionsAsSpecified(rootNode', layout')
            /\ bounds' = BoundsAsSpecified(positions', layout')
            /\ LET fit == resetView(TRUE, clientSize', bounds', zoom, pan)
               IN  SettledNext.zoom = fit.zoom /\ SettledNext.pan = fit.pan
       /\ (lastEvent'.type = "render" /\ queue' = <<>>) =>
            /\ zoom' = Settled.zoom /\ pan' = Settled.pan
            /\ ~effectPending'
      ]_vars

\* C6 witness: the fit of the radial layout, switched to during a drag after
\* other events, has been rendered; it differs from the view before the
\* switch
C6_Witness ==
    /\ lastEvent.type = "render"
    /\ queue = <<>>
    /\ layout = "radial"
    /\ isDragging
    /\ steps = MaxSteps
    /\ rootNode = TreeThree
    /\ zoom = resetView(TRUE, clientSize, bounds, N(1), Point(N(0), N(0))).zoom
    /\ pan = resetView(TRUE, clientSize, bounds, N(1), Point(N(0), N(0))).pan
    /\ pan # anchor.pan

\* max(0.4, min(containerWidth/boundsWidth*0.9,
\*               containerHeight/boundsHeight*0.9, 1)), in exact arithmetic
FitZoomAsClaimed(size, b) ==
    Max2(TwoFifths,
         Min2(Min2(Mul(Div(N(size[1]), b.width), Rat(9, 10)),
                   Mul(Div(N(size[2]), b.height), Rat(9, 10))),
              N(1)))

\* 2^-53, half the distance of the doubles next to 1 from below
HalfUlp == Inverse(Mul(N(2 ^ 30), N(2 ^ 23)))

\* The double of the literal 0.4
DoubleTwoFifths == RoundToDouble(TwoFifths)

\* The double 0.7200000000000001 = 6485183463413515 / 2^53, the double next
\* above the double of the literal 0.72
Double072Next ==
    Mul(Add(Mul(N(64851834), N(100000000)), N(63413515)), HalfUlp)

\* C7: a fit (the effect or resetView) sets
\* zoom = max(0.4, min(containerWidth/boundsWidth*0.9,
\*                     containerHeight/boundsHeight*0.9, 1)),
\* so 0.4 <= zoom <= 1 after it: for the fits of the component, whose bounds
\* are those of its layout, and for the computation applied to bounds that
\* are given.  A container of 800x600 and bounds of 1000x500 give 0.72:
\* exactly in exact arithmetic, and in the doubles of the code
\* 0.7200000000000001, the double next to 0.72, less than 2^-53 from it.
C7_FitZoom ==
    /\ Fitted =>
          /\ Settled.zoom = FitZoomAsClaimed(clientSize, bounds)
          /\ Le(TwoFifths, Settled.zoom) /\ Le(Settled.zoom, N(1))
          /\ lastEvent.type = "reset" => zoom = Settled.zoom
    /\ fitCall.fit # Null =>
          /\ fitCall.view.zoom = FitZoomAsClaimed(fitCall.size, fitCall.bounds)
          /\ Le(TwoFifths, fitCall.view.zoom) /\ Le(fitCall.view.zoom, N(1))
          /\ Le(DoubleTwoFifths, fitCall.double) /\ Le(fitCall.double, N(1))
          /\ (fitCall.size = <<800, 600>> /\ fitCall.bounds.width = N(1000)
                /\ fitCall.bounds.height = N(500)) =>
                /\ fitCall.view.zoom = Rat(72, 100)
                /\ fitCall.double = Double072Next
                /\ Lt(Sub(fitCall.double, Rat(72, 100)), HalfUlp)
                /\ Lt(Rat(72, 100), fitCall.double)

\* C7 witness: the effect has fitted the layout of the six-level chain, 1400
\* wide, into an 800x600 container with a zoom of 18/35, between the floor
\* and 1, and the computation of the effect applied to bounds of 1000x500
\* and a container of the same size gives 0.72
C7_Witness ==
    /\ lastEvent.type = "effect"
    /\ clientSize = <<800, 600>>
    /\ rootNode = DeepChain
    /\ bounds.width = N(1400)
    /\ Settled.zoom = Rat(18, 35)
    /\ fitCall.fit # Null
    /\ fitCall.fit = "effect"
    /\ fitCall.size = <<800, 600>>
    /\ fitCall.bounds.width = N(1000) /\ fitCall.bounds.height = N(500)
    /\ fitCall.view.zoom = Rat(72, 100)

\* C8 (as claimed): after every fit pan centres the content bounding box in
\* the container at the zoom the fit stored:
\* pan.x = (containerWidth - boundsWidth*zoom)/2 - bounds.minX*zoom, and the
\* same for y.  Stated here for containers of positive width and height.
C8_PanCentresAtStoredZoom ==
    (Fitted /\ PositiveContainer) =>
    /\ Settled.pan.x =
          Sub(Div(Sub(N(clientSize[1]), Mul(bounds.width, Settled.zoom)), N(2)),
              Mul(bounds.minX, Settled.zoom))
    /\ Settled.pan.y =
          Sub(Div(Sub(N(clientSize[2]), Mul(bounds.height, Settled.zoom)), N(2)),
              Mul(bounds.minY, Settled.zoom))

\* C9: the fit is idempotent and independent of the viewport it replaces:
\* resetView, after any events and twice in a row, gives the (zoom, pan)
\* the automatic fit gives for the same bounds and container size, and it
\* is rendered with the click.
C9_ResetIsTheAutomaticFit ==
    [][lastEvent'.type = "reset" =>
         /\ LET fit == centerViewEffect(TRUE, clientSize', bounds', N(1),
                                        Point(N(0), N(0)))
            IN  /\ zoom' = fit.zoom /\ pan' = fit.pan
                /\ SettledNext.zoom = fit.zoom /\ SettledNext.pan = fit.pan
         /\ lastEvent.type = "reset" => UNCHANGED <<zoom, pan>>
         /\ (AutoFitted /\ containerRef) =>
                SettledNext.zoom = Settled.zoom /\ SettledNext.pan = Settled.pan
      ]_vars

\* C9 witness: a reset after a dragging mouse-move, during the drag
C9_Witness ==
    /\ lastEvent.type = "reset"
    /\ isDragging
    /\ anchor.p \in Pointers
    /\ Len(queue) >= 2
    /\ steps = MaxSteps

\* Where the content box lands in the container under the viewport
\* transform of the fit
BoxInsideContainer ==
    /\ Le(N(0), Add(Settled.pan.x, Mul(bounds.minX, Settled.zoom)))
    /\ Le(Add(Settled.pan.x, Mul(bounds.maxX, Settled.zoom)), N(clientSize[1]))
    /\ Le(N(0), Add(Settled.pan.y, Mul(bounds.minY, Settled.zoom)))
    /\ Le(Add(Settled.pan.y, Mul(bounds.maxY, Settled.zoom)), N(clientSize[2]))

\* C10 (as claimed): right after every fit, for every tree and every
\* container of positive width and height, the content bounding box mapped
\* through the viewport transform lies within the container.
C10_BoxInsideAfterFit == (Fitted /\ PositiveContainer) => BoxInsideContainer

\* The fit zoom is not raised to the 0.4 floor:
\* 0.9*containerWidth >= 0.4*boundsWidth and the same for the height
FitAboveFloor ==
    /\ Le(Mul(TwoFifths, bounds.width), Mul(Rat(9, 10), N(clientSize[1])))
    /\ Le(Mul(TwoFifths, bounds.height), Mul(Rat(9, 10), N(clientSize[2])))

\* C10 (amended): right after every fit into a container of positive width
\* and height with 0.9*containerWidth >= 0.4*boundsWidth and
\* 0.9*containerHeight >= 0.4*boundsHeight, the content bounding box mapped
\* through the viewport transform lies within the container.
C10_BoxInsideAfterFitAboveFloor ==
    (Fitted /\ PositiveContainer /\ FitAboveFloor) => BoxInsideContainer

\* C10 witness: a fit that scales the content down, above the floor
C10_Witness ==
    /\ Fitted /\ PositiveContainer /\ FitAboveFloor
    /\ Lt(Settled.zoom, N(1))
    /\ BoxInsideContainer

\* C11 (as claimed): when the container has zero width or zero height, a fit
\* (the effect or resetView) is a no-op: zoom and pan keep the values they
\* had before the fit was triggered.
C11_ZeroContainerFitIsNoOp ==
    [][((lastEvent'.type \in {"mount", "replaceRoot", "reset"}
            \/ (lastEvent'.type = "setLayout" /\ lastEvent'.arg = "changed"))
        /\ (clientSize'[1] = 0 \/ clientSize'[2] = 0))
       => SettledNext.zoom = Settled.zoom /\ SettledNext.pan = Settled.pan
      ]_vars

\* C12: hoveredNode is one value, so at most one node is hovered; a
\* mouse-enter on a node sets hoveredNode to that node's id whatever was
\* hovered before, a mouse-leave on a node sets it to none, and neither
\* changes zoom, pan or isDragging.
C12_HoverIsOneValue ==
    [][/\ hoveredNode' # Null =>
            Cardinality({i \in 1..Len(positions') :
                            positions'[i].node = hoveredNode'}) <= 1
       /\ lastEvent'.type = "nodeEnter" =>
            /\ SettledNext = [Settled EXCEPT !.hoveredNode = lastEvent'.arg]
            /\ \E i \in 1..Len(positions) : positions[i].node = lastEvent'.arg
            /\ UNCHANGED <<zoom, pan, isDragging>>
       /\ lastEvent'.type = "nodeLeave" =>
            /\ SettledNext = [Settled EXCEPT !.hoveredNode = Null]
            /\ UNCHANGED <<zoom, pan, isDragging>>
      ]_vars

\* C12 witness: the pointer left a node it had entered, during a drag, and
\* no node is hovered once that is rendered
C12_Witness ==
    /\ lastEvent.type = "nodeLeave"
    /\ Settled.hoveredNode = Null
    /\ Dispatched.hoveredNode = Null
    /\ Len(queue) >= 2
    /\ isDragging
    /\ steps = MaxSteps

\* C13: for every tree, the tree layout and the radial layout each hold
\* exactly one positioned node per tree node, none dropped and none twice,
\* with level = the node's depth from the root (root = 0).
C13_OnePositionedNodePerNode ==
    LET info == Preorder(rootNode, 0)
    IN  /\ Len(positions) = Len(info)
        /\ \A k \in 1..Len(info) :
              /\ Cardinality({i \in 1..Len(positions) :
                                positions[i].node = info[k].id}) = 1
              /\ PosOf(info[k].id).level = info[k].depth
        /\ positions = useMemo(rootNode, layout).positions

\* C13 witness: the radial layout of a seven-node tree of three levels,
\* switched to from the tree layout
C13_Witness ==
    /\ RadialLaidOut
    /\ lastEvent.type = "setLayout"
    /\ Len(positions) = 7
    /\ \E i \in 1..Len(positions) : positions[i].level = 2

\* C14: in tree layout every node has x = 80 + level * (160 + 80): the root
\* is at x = 80, the nodes of one level share their x, and x strictly
\* increases with the level.
C14_TreeXByLevel ==
    layout = "tree" =>
    /\ positions[1].node = rootNode.id /\ positions[1].x = N(80)
    /\ \A i \in 1..Len(positions) :
          positions[i].x = N(80 + positions[i].level * 240)
    /\ \A i, j \in 1..Len(positions) :
          /\ positions[i].level = positions[j].level => positions[i].x = positions[j].x
          /\ positions[i].level < positions[j].level => Lt(positions[i].x, positions[j].x)

\* C14 witness: a tree layout of four levels, the deepest node at x = 800
C14_Witness ==
    /\ TreeLaidOut
    /\ \E i \in 1..Len(positions) :
          positions[i].level = 3 /\ positions[i].x = N(800)

\* C15: in tree layout the k-th leaf in depth-first child order
\* (k = 0, 1, ...) has y = 50 + 80k, and the height returned for a subtree
\* with L leaves is 50*L + 30*(L-1).
C15_LeavesOnARunningCursor ==
    layout = "tree" =>
    LET info == Preorder(rootNode, 0)
        leaves == SelectSeq(info, IsLeaf)
    IN  /\ \A k \in 1..Len(leaves) :
              PosOf(leaves[k].id).y = N(50 + 80 * (k - 1))
        /\ \A k \in 1..Len(info) :
              LET L == LeafCount(info[k].sub)
              IN  calculateTreeLayout(info[k].sub, N(80), N(50), info[k].depth,
                                      Null).height = 50 * L + 30 * (L - 1)

\* C15 witness: a tree layout with four leaves, the last at y = 290
C15_Witness ==
    /\ TreeLaidOut
    /\ LeafCount(rootNode) = 4
    /\ positions[Len(positions)].y = N(290)

\* C16: in tree layout every internal node's y is (y of its first child +
\* y of its last child) / 2, the first and the last child only; a node with
\* one child has that child's y, and in Root -> [A, B], A -> [A1],
\* Root.y = (A.y + B.y)/2 and A.y = A1.y.
C16_ParentMidwayFirstLastChild ==
    layout = "tree" =>
    LET info == Preorder(rootNode, 0)
    IN  /\ \A k \in 1..Len(info) :
              LET kids == info[k].sub.children
              IN  Len(kids) > 0 =>
                    /\ PosOf(info[k].id).y =
                          Div(Add(PosOf(kids[1].id).y, PosOf(kids[Len(kids)].id).y),
                              N(2))
                    /\ Len(kids) = 1 => PosOf(info[k].id).y = PosOf(kids[1].id).y
        /\ rootNode = TreeThree =>
              /\ PosOf("root").y = Div(Add(PosOf("a").y, PosOf("b").y), N(2))
              /\ PosOf("a").y = PosOf("a1").y

\* C16 witness: a root whose last child has two children of its own, so the
\* last child and the last positioned node differ in y, and a node with three
\* children being the other case
C16_Witness ==
    /\ TreeLaidOut
    /\ Len(rootNode.children) = 2
    /\ Len(rootNode.children[2].children) = 2
    /\ Len(rootNode.children[1].children) = 0
    /\ PosOf("r").y = N(110)
    /\ PosOf("b").y = N(170)
    /\ PosOf("b2").y = N(210)

\* C17: in tree layout, for any node and any two of its children c_i before
\* c_j, every node of c_i's subtree has y + 50 + 30 <= y of every node of
\* c_j's subtree; so two distinct nodes of one level never share a y.
C17_SiblingSubtreesApart ==
    layout = "tree" =>
    LET info == Preorder(rootNode, 0)
    IN  /\ \A k \in 1..Len(info) :
              LET kids == info[k].sub.children
              IN  \A i, j \in 1..Len(kids) :
                    i < j =>
                      \A a \in SubtreeIds(kids[i]), b \in SubtreeIds(kids[j]) :
                          Le(Add(PosOf(a).y, N(nodeHeight + verticalGap)), PosOf(b).y)
        /\ \A i, j \in 1..Len(positions) :
              (i # j /\ positions[i].level = positions[j].level) =>
                  positions[i].y # positions[j].y

\* C17 witness: the first child's subtree has three leaves and the second
\* child sits exactly one row below the last of them
C17_Witness ==
    /\ TreeLaidOut
    /\ Len(rootNode.children) = 2
    /\ Len(rootNode.children[1].children) = 3
    /\ PosOf("a3").y = N(210)
    /\ PosOf("b").y = N(290)

\* C18 (as claimed): for Root -> [A, B], A -> [A1], tree layout with
\* startX = 80 places Root at x = 80, A and B at x = 320 and A1 at x = 640.
C18_ThreeLevelXsAsClaimed ==
    (rootNode = TreeThree /\ layout = "tree") =>
    /\ PosOf("root").x = N(80)
    /\ PosOf("a").x = N(320) /\ PosOf("b").x = N(320)
    /\ PosOf("a1").x = N(640)

\* C18 (amended): for Root -> [A, B], A -> [A1], tree layout with
\* startX = 80 places Root at x = 80, A and B at x = 320 and A1 at
\* x = 80 + 2 * 240 = 560.
C18_ThreeLevelXs ==
    (rootNode = TreeThree /\ layout = "tree") =>
    /\ PosOf("root").x = N(80)
    /\ PosOf("a").x = N(320) /\ PosOf("b").x = N(320)
    /\ PosOf("a1").x = N(560)

\* C18 witness: the tree layout of Root -> [A, B], A -> [A1] after a commit
C18_Witness ==
    /\ TreeLaidOut
    /\ rootNode = TreeThree
    /\ PosOf("a1").level = 2

\* C19 (as claimed): in tree mode, for every tree and every label length,
\* the rectangle [x, x + getNodeWidth(label, level)] x
\* [y, y + getNodeHeight(level)] of every positioned node lies inside
\* [bounds.minX, bounds.maxX] x [bounds.minY, bounds.maxY].
C19_BoundsHoldEveryNode ==
    layout = "tree" =>
    LET info == Preorder(rootNode, 0)
    IN  \A k \in 1..Len(info) :
          LET pos == PosOf(info[k].id)
              w == getNodeWidth(info[k].sub.label, pos.level)
              h == getNodeHeight(pos.level)
          IN  /\ Le(bounds.minX, pos.x)
              /\ Le(Add(pos.x, N(w)), bounds.maxX)
              /\ Le(bounds.minY, pos.y)
              /\ Le(Add(pos.y, N(h)), bounds.maxY)

\* The distance of a positioned node from the radial centre, squared
DistSq(pos) ==
    LET dx == Sub(pos.x, N(600))
        dy == Sub(pos.y, N(400))
    IN  Add(Mul(dx, dx), Mul(dy, dy))

\* The precision the coordinates keep of the radius: twelve significant
\* digits of its square
Tolerance == Div(N(1), Mul(N(1000000), N(1000000)))

\* C20: in radial layout the root is exactly at the centre (600, 400) with
\* level 0, and every node of level L > 0 is at
\* (600 + r*cos(angle), 400 + r*sin(angle)) with r = 180 + (L-1)*160, which
\* depends on the level alone: at distance r from the centre, to the
\* precision of the coordinates (the cosine and the sine are numbers of
\* finitely many digits); the distance grows strictly with the level.
C20_RadiusByLevel ==
    layout = "radial" =>
    /\ positions[1].node = rootNode.id
    /\ positions[1].level = 0
    /\ positions[1].x = N(600) /\ positions[1].y = N(400)
    /\ \A i \in 1..Len(positions) :
          LET L == positions[i].level
              r == 180 + (L - 1) * 160
          IN  L > 0 =>
                /\ positions[i].x = Add(N(600), Mul(N(r), cos(positions[i].angle)))
                /\ positions[i].y = Add(N(400), Mul(N(r), sin(positions[i].angle)))
                /\ Le(Mul(Sub(N(1), Tolerance), N(r * r)), DistSq(positions[i]))
                /\ Le(DistSq(positions[i]), Mul(Add(N(1), Tolerance), N(r * r)))
    /\ \A i, j \in 1..Len(positions) :
          positions[i].level < positions[j].level =>
              Lt(DistSq(positions[i]), DistSq(positions[j]))

\* C20 witness: a radial layout with a node of level 1 at 90 degrees, 180
\* from the centre, and a node of level 2 at 30 degrees, whose cosine is
\* irrational, 340 from the centre
C20_Witness ==
    /\ RadialLaidOut
    /\ Len(rootNode.children) = 2
    /\ Len(rootNode.children[1].children) = 3
    /\ PosOf("a").level = 1 /\ PosOf("a").angle = Rat(1, 2)
    /\ PosOf("a").x = N(600) /\ PosOf("a").y = N(580)
    /\ PosOf("a1").level = 2 /\ PosOf("a1").angle = Rat(1, 6)
    /\ PosOf("a1").y = N(570)
    /\ DistSq(PosOf("a1")) # N(340 * 340)

\* C21: in radial layout the root's sector is [0, 2*pi); the i-th of the n
\* children of a node with sector [s, e) has the sub-sector
\* [s + i*(e-s)/n, s + (i+1)*(e-s)/n); every non-root node's angle is the
\* midpoint of its own sector; sibling sectors are disjoint, cover the
\* parent's sector, and each child's angle lies inside its parent's sector.
C21_SectorsAndMidpoints ==
    layout = "radial" =>
    LET sec == SectorsOf(rootNode, N(0), N(2))
        SecOf(id) == sec[CHOOSE k \in 1..Len(sec) : sec[k].id = id]
    IN  \A k \in 1..Len(sec) :
          LET kids == sec[k].sub.children
          IN  /\ k > 1 => PosOf(sec[k].id).angle =
                              Div(Add(sec[k].s, sec[k].e), N(2))
              /\ Len(kids) > 0 =>
                    /\ SecOf(kids[1].id).s = sec[k].s
                    /\ SecOf(kids[Len(kids)].id).e = sec[k].e
                    /\ \A i \in 1..Len(kids) :
                          /\ Lt(SecOf(kids[i].id).s, SecOf(kids[i].id).e)
                          /\ i < Len(kids) =>
                                SecOf(kids[i].id).e = SecOf(kids[i + 1].id).s
                          /\ Le(sec[k].s, PosOf(kids[i].id).angle)
                          /\ Lt(PosOf(kids[i].id).angle, sec[k].e)

\* C21 witness: a first child with sector [0, pi) and three children of its
\* own, at pi/6, pi/2 and 5*pi/6
C21_Witness ==
    /\ RadialLaidOut
    /\ Len(rootNode.children) = 2
    /\ Len(rootNode.children[1].children) = 3
    /\ PosOf("a1").angle = Rat(1, 6)
    /\ PosOf("a2").angle = Rat(1, 2)
    /\ PosOf("a3").angle = Rat(5, 6)

\* A root with exactly four children and no grandchildren
FourLeaves ==
    /\ Len(rootNode.children) = 4
    /\ \A i \in 1..4 : Len(rootNode.children[i].children) = 0

\* C22 (as claimed): for a root with exactly 4 children and no
\* grandchildren, radial layout places child k (k = 0..3) at angle
\* k*(2*pi/4), all at radius 180.
C22_FourChildrenAtQuarterTurns ==
    (layout = "radial" /\ FourLeaves) =>
    \A k \in 0..3 :
        LET pos == PosOf(rootNode.children[k + 1].id)
        IN  /\ pos.angle = Mul(N(k), Rat(2, 4))
            /\ pos.x = Add(N(600), Mul(N(180), cos(pos.angle)))
            /\ pos.y = Add(N(400), Mul(N(180), sin(pos.angle)))

\* C22 (amended): for a root with exactly 4 children and no grandchildren,
\* radial layout places child k (k = 0..3) at angle (2k+1)*pi/4, the
\* midpoint of its quarter, all at radius 180.
C22_FourChildrenAtQuarterMidpoints ==
    (layout = "radial" /\ FourLeaves) =>
    \A k \in 0..3 :
        LET pos == PosOf(rootNode.children[k + 1].id)
        IN  /\ pos.angle = Rat(2 * k + 1, 4)
            /\ pos.level = 1
            /\ pos.x = Add(N(600), Mul(N(180), cos(pos.angle)))
            /\ pos.y = Add(N(400), Mul(N(180), sin(pos.angle)))

\* C22 witness: the radial layout of a root with four leaves
C22_Witness ==
    /\ RadialLaidOut
    /\ FourLeaves
    /\ PosOf("a").angle = Rat(1, 4)
    /\ PosOf("d").angle = Rat(7, 4)

\* C24: in both layouts the root's positioned node has no parent and every
\* other positioned node's parent is its parent in the input tree, one level
\* up; the renderer draws one connection per non-root node, from that parent
\* to the node, and none for the root: N nodes give N-1 connections.
C24_ParentsAndConnections ==
    LET info == Preorder(rootNode, 0)
        edges == connections(positions, layout)
    IN  /\ PosOf(rootNode.id).parent = Null
        /\ \A k \in 2..Len(info) :
              /\ PosOf(info[k].id).parent = TreeParent(info, info[k].id)
              /\ PosOf(info[k].id).level = PosOf(PosOf(info[k].id).parent).level + 1
              /\ Cardinality({e \in 1..Len(edges) : edges[e].to = info[k].id}) = 1
              /\ \A e \in 1..Len(edges) :
                    edges[e].to = info[k].id =>
                        edges[e].from = TreeParent(info, info[k].id)
        /\ \A e \in 1..Len(edges) : edges[e].to # rootNode.id
        /\ Len(edges) = Len(info) - 1

\* C24 witness: the six connections of a seven-node tree in radial layout
C24_Witness ==
    /\ RadialLaidOut
    /\ Len(positions) = 7
    /\ Len(connections(positions, layout)) = 6
    /\ PosOf("b2").parent = "b"

\* C25: the palette index of a level is min(level, 5) over the 6-entry
\* palette: the levels 0..5 get distinct entries, every level >= 5 gets the
\* last entry, and the index is a position of the palette; the gradient a
\* node is filled with has the same index.
C25_PaletteClamps ==
    /\ Len(LEVEL_COLORS) = 6
    /\ \A level \in 0..MaxLevel :
          /\ paletteIndex(level) = (IF level < 5 THEN level ELSE 5)
          /\ paletteIndex(level) + 1 \in DOMAIN LEVEL_COLORS
          /\ level >= 5 => getColors(level) = LEVEL_COLORS[6]
          /\ \A other \in 0..5 :
                (level <= 5 /\ other # level) => getColors(other) # getColors(level)
    /\ \A i \in 1..Len(positions) :
          /\ gradientOf(positions[i].level) = paletteIndex(positions[i].level)
          /\ getColors(positions[i].level) =
                LEVEL_COLORS[(IF positions[i].level < 5 THEN positions[i].level
                              ELSE 5) + 1]

\* C25 witness: a chain with a node on each of the levels 0..5, the deepest
\* drawn with the last entry of the palette
C25_Witness ==
    /\ containerRef
    /\ rootNode = DeepChain
    /\ PosOf("c5").level = 5
    /\ getColors(PosOf("c5").level).bg = "#06B6D4"

\* The labels of a tree, in depth-first child order
LabelsOf(node) ==
    LET info == Preorder(node, 0) IN [k \in 1..Len(info) |-> info[k].sub.label]

\* C26: a label longer than 25 characters is shown as its first 22
\* characters followed by '...', a label of at most 25 characters whole, so
\* the text shown never exceeds 25 characters; rendering leaves the labels of
\* the tree as they are.
C26_LabelTruncation ==
    [][/\ \A k \in 1..Len(LabelsOf(rootNode')) :
             LET label == LabelsOf(rootNode')[k]
                 shown == nodeText(label)
             IN  /\ Len(label) > 25 => shown = SubSeq(label, 1, 22) \o "..."
                 /\ Len(label) <= 25 => shown = label
                 /\ Len(shown) <= 25
       /\ lastEvent'.type # "replaceRoot" => rootNode' = rootNode
      ]_vars

\* C26 witness: a root of 25 characters shown whole over a child of 26
\* characters shown cut
C26_Witness ==
    /\ containerRef
    /\ Len(rootNode.label) = 25 /\ nodeText(rootNode.label) = rootNode.label
    /\ Len(rootNode.children) = 1
    /\ Len(rootNode.children[1].label) = 26
    /\ nodeText(rootNode.children[1].label) = "Twenty-six characters ..."

\* C29: for every tree and both layout modes the bounds have strictly
\* positive width and height (tree mode: width >= 200 and height >= 90;
\* radial mode: width >= 200 and height >= 100), so the fit divides by no
\* zero.
C29_BoundsArePositive ==
    /\ Lt(N(0), bounds.width) /\ Lt(N(0), bounds.height)
    /\ bounds.width = Sub(bounds.maxX, bounds.minX)
    /\ bounds.height = Sub(bounds.maxY, bounds.minY)
    /\ Le(N(200), bounds.width)
    /\ layout = "tree" => Le(N(90), bounds.height)
    /\ layout = "radial" => Le(N(100), bounds.height)

\* C29 witness: the bounds of a single root, the smallest there are, in
\* radial mode
C29_Witness ==
    /\ RadialLaidOut
    /\ Len(positions) = 1
    /\ bounds.width = N(200) /\ bounds.height = N(100)

\* The event handled last re-applied the fit for a new tree or layout mode
Refitted ==
    \/ lastEvent.type = "replaceRoot"
    \/ lastEvent.type = "setLayout" /\ lastEvent.arg = "changed"

\* C27 (as claimed): once a tree replacement or layout switch has re-applied
\* the fit, (zoom, pan) stays equal to that fit until the next mouse-down,
\* wheel, zoom-button or reset event; stated for the step that follows the
\* fit: unless it is one of those, or another fit, it leaves the zoom and
\* the pan the component comes to as they are, a mouse-move of a drag in
\* progress included.
C27_FitHoldsUntilViewEvent ==
    [][(Refitted
        /\ lastEvent'.type \in {"mousemove", "mouseup", "mouseleave",
                                 "nodeEnter", "nodeLeave", "effect", "render"})
       => SettledNext.zoom = Settled.zoom /\ SettledNext.pan = Settled.pan
      ]_vars

\* C28 (as claimed): in every reachable state hoveredNode is none or the id
\* of a node of the tree currently rendered, also after the root is replaced
\* by a tree with other node ids while a node is hovered.
C28_HoveredNodeIsRendered ==
    hoveredNode # Null =>
        \E i \in 1..Len(positions) : positions[i].node = hoveredNode

\* C30: when handleSelectMindMap has been called two or more times and every
\* fetch has succeeded, in whichever order the responses arrived, and every
\* update has been rendered and no other handler has set selectedMindMap
\* since, the mind map shown and handed to the component is the one
\* requested last
C30_LastRequestedIsShown ==
    (/\ Len(requested) >= 2
     /\ pending = {}
     /\ succeeded = 1..Len(requested)
     /\ pageQueue = <<>>
     /\ ~overwritten)
        => /\ selectedMindMap # NoMindMap
           /\ selectedMindMap[1].id = requested[Len(requested)]
           /\ containerRef
           /\ rootNode = TreeOf(requested[Len(requested)])

====
